---- MODULE Spec2Model ----
(***************************************************************************)
(* A model of the subtake scan engine: the scheduler of                    *)
(* internal/scanner/scanner.go (rate-limited loop and worker pool), the    *)
(* per-subdomain prober (scanSubdomain, tryProtocol, checkVulnerabilities, *)
(* extractSnippet), the retry loop of httpclient.Client.Get and the        *)
(* fingerprint matcher (Fingerprints.Match, Fingerprint.Match).            *)
(*                                                                         *)
(* Go strings that the code inspects character by character (bodies and    *)
(* patterns) are sequences of one-character strings; strings the code only *)
(* copies (subdomain names, service names) are TLA+ strings.  An error     *)
(* message is a sequence of tokens, the empty sequence being Go's "".      *)
(* A nil pointer or nil error is the empty sequence, a non-nil one a       *)
(* one-element sequence (pointers) or a non-empty token sequence (errors). *)
(* Slices and arrays keep Go's 0-based indices: they are functions on      *)
(* 0..n-1.                                                                 *)
(***************************************************************************)
EXTENDS Integers, Sequences, FiniteSets, Bags, TLC

\* ------------------------------------------------------------------ bounds

\* Longest input list of subdomains.
MaxSubs == 2

\* Longest fingerprint catalog.
MaxCatalog == 2

\* Largest --timeout-retries of the fetching runs.
MaxRetries == 2

\* How far below and above the truncation threshold the body lengths of the
\* body-reading runs go.
MaxExcess == 12

\* How many steps of the clock make one second.
Resolution == 4

\* How many steps of the clock a timed run is followed for.
MaxQuanta == 6

\* Longest list file, in tokens.
MaxFile == 3

\* how many times Scan is called on one scanner
MaxScans == 2

\* ------------------------------------------------------- program constants

\* const maxWorkers = 20 (scanWithWorkers, scanWithWorkersRealtime)
maxWorkers == 20

\* extractSnippet: characters of context on each side of the match
SnippetContext == 100

\* CheckRedirect: if len(via) >= 10
MaxRedirects == 10

\* readBody: if len(allData) <= 16384
BodyLimit == 16384

\* readBody: allData[:8192] and allData[len(allData)-8192:]
HalfLimit == 8192

\* time.Second, in nanoseconds
Second == 1000000000

\* ------------------------------------------------------------ Go calls

\* Go passes arguments by value: F applied to the value of a (of a and b),
\* evaluated once before the call
Call1(F(_), a) == CHOOSE r \in {F(x) : x \in {a}} : TRUE

Call2(F(_, _), a, b) == CHOOSE r \in {F(x, y) : x \in {a}, y \in {b}} : TRUE

\* ------------------------------------------------------------ Go strings

\* unicode lower-casing on the model's alphabet
LowerChar(c) ==
    CASE c = "A" -> "a"
      [] c = "B" -> "b"
      [] OTHER -> c

\* a byte that is not valid UTF-8, as a body in another encoding holds
InvalidByte == "<ff>"

\* the UTF-8 encoding of U+FFFD, three bytes
ReplacementChar == <<"<ef>", "<bf>", "<bd>">>

\* what strings.Map(unicode.ToLower, s) writes for one character of s: an
\* invalid byte comes out as the replacement character
LowerRune(c) ==
    IF c = InvalidByte THEN ReplacementChar ELSE <<LowerChar(c)>>

\* strings.ToLower
RECURSIVE ToLower(_)
ToLower(s) ==
    IF s = <<>> THEN <<>>
    ELSE IF Len(s) = 1 THEN LowerRune(s[1])
    ELSE ToLower(SubSeq(s, 1, Len(s) \div 2))
             \o ToLower(SubSeq(s, Len(s) \div 2 + 1, Len(s)))

\* s[lo:hi] with Go's 0-based, half-open bounds
Slice(s, lo, hi) == SubSeq(s, lo + 1, hi)

\* sub occurs in s at 0-based offset at
OccursAt(s, sub, at) ==
    /\ at + Len(sub) <= Len(s)
    /\ \A k \in 1..Len(sub) : s[at + k] = sub[k]

\* strings.Index: the first offset of sub in s, or -1
Index(s, sub) ==
    LET First(str, substr) ==
            IF \A at \in 0..Len(str) : ~OccursAt(str, substr, at)
            THEN -1
            ELSE CHOOSE at \in 0..Len(str) :
                    /\ OccursAt(str, substr, at)
                    /\ \A o \in 0..(at - 1) : ~OccursAt(str, substr, o)
    IN  Call2(First, s, sub)

\* strings.Contains
Contains(s, sub) == Index(s, sub) >= 0

\* ------------------------------------------------------------ regexp

(* The fragment of Go's regexp syntax the model's patterns use: a letter   *)
(* matches itself, "." matches any character, and "(" opens a group that   *)
(* the alphabet cannot close, so a pattern holding "(" does not compile.   *)

\* regexp.Compile succeeds
RegexCompiles(pattern) == \A k \in 1..Len(pattern) : pattern[k] # "("

\* the error of regexp.Compile
RegexCompileError(pattern) ==
    <<"error parsing regexp: missing closing ):">> \o pattern

\* the compiled pattern matches s at 0-based offset at
RegexMatchesAt(pattern, s, at) ==
    /\ at + Len(pattern) <= Len(s)
    /\ \A k \in 1..Len(pattern) : pattern[k] = "." \/ s[at + k] = pattern[k]

\* (*Regexp).MatchString: an unanchored match anywhere in s
RegexMatchString(pattern, s) ==
    \E at \in 0..Len(s) : RegexMatchesAt(pattern, s, at)

\* ------------------------------------------------------------ fingerprints

\* FingerprintMatch with the regex run on the lowercased content and the
\* substring looked for in the content as it is
FingerprintMatchCaseSwapped(f, content) ==
    IF f.Regex
    THEN IF ~RegexCompiles(f.Pattern)
         THEN [matched |-> FALSE,
               err |-> <<"invalid regex pattern">> \o f.Pattern
                           \o <<":">> \o RegexCompileError(f.Pattern)]
         ELSE [matched |-> RegexMatchString(f.Pattern, ToLower(content)),
               err |-> <<>>]
    ELSE [matched |-> Contains(content, f.Pattern), err |-> <<>>]

\* FingerprintMatch with a pattern that does not compile taken for one that
\* matches nothing
FingerprintMatchBadIsMiss(f, content) ==
    IF f.Regex
    THEN IF ~RegexCompiles(f.Pattern)
         THEN [matched |-> FALSE, err |-> <<>>]
         ELSE [matched |-> RegexMatchString(f.Pattern, content), err |-> <<>>]
    ELSE [matched |-> Contains(ToLower(content), ToLower(f.Pattern)),
          err |-> <<>>]

\* (*Fingerprint).Match: [matched, err], err = <<>> being nil
FingerprintMatch(f, content) ==
    IF f.Regex
    THEN IF ~RegexCompiles(f.Pattern)
         THEN [matched |-> FALSE,
               err |-> <<"invalid regex pattern">> \o f.Pattern
                           \o <<":">> \o RegexCompileError(f.Pattern)]
         ELSE [matched |-> RegexMatchString(f.Pattern, content), err |-> <<>>]
    ELSE [matched |-> Contains(ToLower(content), ToLower(f.Pattern)),
          err |-> <<>>]

\* MatchFrom with the loop left at the first match
RECURSIVE MatchFromFirstOnly(_, _, _, _)
MatchFromFirstOnly(catalog, content, k, acc) ==
    IF k > Len(catalog) \/ acc # <<>>
    THEN [matches |-> acc, err |-> <<>>]
    ELSE LET m == FingerprintMatch(catalog[k], content)
         IN  IF m.err # <<>>
             THEN [matches |-> <<>>, err |-> m.err]
             ELSE MatchFromFirstOnly(catalog, content, k + 1,
                            IF m.matched THEN Append(acc, catalog[k]) ELSE acc)

\* the loop of (*Fingerprints).Match over catalog[k..], matches so far in acc
RECURSIVE MatchFrom(_, _, _, _)
MatchFrom(catalog, content, k, acc) ==
    IF k > Len(catalog)
    THEN [matches |-> acc, err |-> <<>>]
    ELSE LET m == FingerprintMatch(catalog[k], content)
         IN  IF m.err # <<>>
             THEN [matches |-> <<>>, err |-> m.err]
             ELSE MatchFrom(catalog, content, k + 1,
                            IF m.matched THEN Append(acc, catalog[k]) ELSE acc)

\* Match with a fingerprint that returns an error passed over
MatchBestEffort(catalog, content) ==
    LET Hit(f) == FingerprintMatch(f, content).matched
    IN  [matches |-> SelectSeq(catalog, Hit), err |-> <<>>]

\* (*Fingerprints).Match: [matches, err]
Match(catalog, content) == MatchFrom(catalog, content, 1, <<>>)

\* ------------------------------------------------------------ types

\* the zero value of types.Result (results := make([]types.Result, n))
ZeroResult ==
    [Subdomain |-> "", Vulnerable |-> FALSE, Status |-> "", Evidence |-> <<>>,
     Error |-> <<>>, HTTPResponse |-> <<>>, HTTPSResponse |-> <<>>]

\* ------------------------------------------------------------ httpclient

\* the CheckRedirect of the http.Client built by New, on len(via) = via
CheckRedirect(via) ==
    IF via >= MaxRedirects THEN <<"too many redirects">> ELSE <<>>

\* ClientDo with every redirect followed, CheckRedirect never asked
ClientDoUnchecked(hops, via) == [err |-> <<>>, followed |-> via - 1 + hops]

\* (*http.Client).Do once via requests have been sent and answered, the
\* servers still answering hops times with a redirect: CheckRedirect is
\* asked before each redirect is followed, with the requests made so far
RECURSIVE ClientDo(_, _)
ClientDo(hops, via) ==
    IF hops = 0
    THEN [err |-> <<>>, followed |-> via - 1]
    ELSE IF CheckRedirect(via) # <<>>
    THEN [err |-> CheckRedirect(via), followed |-> via - 1]
    ELSE ClientDo(hops - 1, via + 1)

\* the bytes a gzip member starts with: the magic number, then the
\* compression method, 8 being the only one the format defines
GzipMagic == <<"0x1f", "0x8b">>

GzipDeflate == "0x08"

\* the check value a gzip member ends with, on the model's stored members
GzipCheck(payload) == ToString(Len(payload) % 251)

\* a well-formed gzip member holding payload
GzipMember(payload) ==
    GzipMagic \o <<GzipDeflate>> \o payload \o <<GzipCheck(payload)>>

\* gzip.NewReader returns an error: the header is short or of unknown method
GzipHeaderError(allData) ==
    Len(allData) < 3 \/ allData[3] # GzipDeflate

\* what io.ReadAll(gzReader) has read when the member ends
GzipPayload(allData) == SubSeq(allData, 4, Len(allData) - 1)

\* io.ReadAll(gzReader) returns an error: no check value, or a wrong one
GzipReadError(allData) ==
    \/ Len(allData) < 4
    \/ allData[Len(allData)] # GzipCheck(GzipPayload(allData))

\* the separator readBody puts between the two halves
Separator ==
    <<"\n", ".", ".", ".", " ", "[", "t", "r", "u", "n", "c", "a", "t", "e",
      "d", "]", " ", ".", ".", ".", "\n">>

\* readBody with the threshold of one half for that of the whole
readBodyLowThreshold(allData) ==
    LET gz == /\ Len(allData) >= 2
              /\ allData[1] = GzipMagic[1]
              /\ allData[2] = GzipMagic[2]
    IN  IF gz /\ GzipHeaderError(allData) THEN allData
        ELSE IF gz /\ GzipReadError(allData) THEN allData
        ELSE LET data == IF gz THEN GzipPayload(allData) ELSE allData
             IN  IF Len(data) <= HalfLimit THEN data
                 ELSE SubSeq(data, 1, HalfLimit) \o Separator
                          \o SubSeq(data, Len(data) - HalfLimit + 1, Len(data))

\* readBody with the two halves joined without the separator
readBodyNoSeparator(allData) ==
    LET gz == /\ Len(allData) >= 2
              /\ allData[1] = GzipMagic[1]
              /\ allData[2] = GzipMagic[2]
    IN  IF gz /\ GzipHeaderError(allData) THEN allData
        ELSE IF gz /\ GzipReadError(allData) THEN allData
        ELSE LET data == IF gz THEN GzipPayload(allData) ELSE allData
             IN  IF Len(data) <= BodyLimit THEN data
                 ELSE SubSeq(data, 1, HalfLimit)
                          \o SubSeq(data, Len(data) - HalfLimit + 1, Len(data))

\* readBody, the body read from the connection being allData: the string it
\* returns (its error is nil on every path but a failed read of the
\* connection, which is one of the transport failures of the network)
readBody(allData) ==
    LET gz == /\ Len(allData) >= 2
              /\ allData[1] = GzipMagic[1]
              /\ allData[2] = GzipMagic[2]
    IN  IF gz /\ GzipHeaderError(allData) THEN allData
        ELSE IF gz /\ GzipReadError(allData) THEN allData
        ELSE LET data == IF gz THEN GzipPayload(allData) ELSE allData
             IN  IF Len(data) <= BodyLimit THEN data
                 ELSE SubSeq(data, 1, HalfLimit) \o Separator
                          \o SubSeq(data, Len(data) - HalfLimit + 1, Len(data))

\* doRequest for url, the network answering with n: a response of some
\* status code with its body as readBody returns it, or an error: a
\* transport failure or a refused redirect (url.Error: Get "<url>": <cause>);
\* followed is the number of redirects it has followed, hops the number the
\* servers had for it
doRequest(n, url) ==
    IF ~n.ok
    THEN [ok |-> FALSE, StatusCode |-> 0, Body |-> <<>>,
          err |-> <<"Get">> \o url \o <<n.cause>>, followed |-> 0,
          hops |-> n.hops]
    ELSE LET do == ClientDo(n.hops, 1)
         IN  IF do.err # <<>>
             THEN [ok |-> FALSE, StatusCode |-> 0, Body |-> <<>>,
                   err |-> <<"Get">> \o url \o <<":">> \o do.err,
                   followed |-> do.followed, hops |-> n.hops]
             ELSE [ok |-> TRUE, StatusCode |-> n.StatusCode,
                   Body |-> readBody(n.Body), err |-> <<>>,
                   followed |-> do.followed, hops |-> n.hops]

\* what one doRequest for url can come back with, the network behaving as
\* net allows
DoRequestOutcomes(net, url) == {doRequest(n, url) : n \in net}

\* SleepBefore with the sleep taken after the attempt that went before
SleepBeforeEveryTurn(attempt) == <<attempt + 1>>

\* time.Sleep at the head of turn attempt of the loop of Get: the seconds
\* slept, none on the first turn
SleepBefore(attempt) == IF attempt > 0 THEN <<attempt>> ELSE <<>>

\* the Response Get returns once the loop has run out of attempts
ExhaustedResponse(retries, lastErr) ==
    [StatusCode |-> 0, Body |-> <<>>,
     Error |-> <<"request failed after", ToString(retries + 1), "attempts:">>
                 \o (IF lastErr = <<>> THEN <<"%!w(<nil>)">> ELSE lastErr)]

\* GetAttempt with lastErr assigned on the first failure only
GetAttemptFirstError(g, retries, o) ==
    LET first == IF g.lastErr = <<>> THEN o.err ELSE g.lastErr
    IN  IF g.attempt > retries
        THEN [done |-> TRUE, resp |-> ExhaustedResponse(retries, g.lastErr),
              attempt |-> g.attempt, lastErr |-> g.lastErr]
        ELSE IF o.ok
        THEN [done |-> TRUE,
              resp |-> [StatusCode |-> o.StatusCode, Body |-> o.Body, Error |-> <<>>],
              attempt |-> g.attempt, lastErr |-> g.lastErr]
        ELSE IF g.attempt + 1 > retries
        THEN [done |-> TRUE, resp |-> ExhaustedResponse(retries, first),
              attempt |-> g.attempt + 1, lastErr |-> first]
        ELSE [done |-> FALSE, resp |-> ExhaustedResponse(retries, first),
              attempt |-> g.attempt + 1, lastErr |-> first]

\* GetAttempt with a response of status 400 or more counted as a failure
GetAttemptRetryOnStatus(g, retries, o) ==
    LET failed == ~o.ok \/ o.StatusCode >= 400
        err == IF o.ok THEN <<"status", ToString(o.StatusCode)>> ELSE o.err
    IN  IF g.attempt > retries
        THEN [done |-> TRUE, resp |-> ExhaustedResponse(retries, g.lastErr),
              attempt |-> g.attempt, lastErr |-> g.lastErr]
        ELSE IF ~failed
        THEN [done |-> TRUE,
              resp |-> [StatusCode |-> o.StatusCode, Body |-> o.Body, Error |-> <<>>],
              attempt |-> g.attempt, lastErr |-> g.lastErr]
        ELSE IF g.attempt + 1 > retries
        THEN [done |-> TRUE, resp |-> ExhaustedResponse(retries, err),
              attempt |-> g.attempt + 1, lastErr |-> err]
        ELSE [done |-> FALSE, resp |-> ExhaustedResponse(retries, err),
              attempt |-> g.attempt + 1, lastErr |-> err]

\* one turn of the loop of (*Client).Get in state g = [attempt, lastErr],
\* doRequest coming back with o: the loop returns (done) or goes on
GetAttempt(g, retries, o) ==
    IF g.attempt > retries
    THEN [done |-> TRUE, resp |-> ExhaustedResponse(retries, g.lastErr),
          attempt |-> g.attempt, lastErr |-> g.lastErr]
    ELSE IF o.ok
    THEN [done |-> TRUE,
          resp |-> [StatusCode |-> o.StatusCode, Body |-> o.Body, Error |-> <<>>],
          attempt |-> g.attempt, lastErr |-> g.lastErr]
    ELSE IF g.attempt + 1 > retries
    THEN [done |-> TRUE, resp |-> ExhaustedResponse(retries, o.err),
          attempt |-> g.attempt + 1, lastErr |-> o.err]
    ELSE [done |-> FALSE, resp |-> ExhaustedResponse(retries, o.err),
          attempt |-> g.attempt + 1, lastErr |-> o.err]

\* ------------------------------------------------------------ prober

\* fmt.Sprintf("%s://%s", protocol, subdomain)
URL(protocol, subdomain) == <<protocol, "://", subdomain>>

\* tryProtocol, from the Response of Get on: the *types.HTTPResponse
tryProtocol(url, resp) ==
    [URL |-> url, StatusCode |-> resp.StatusCode, Body |-> resp.Body,
     Error |-> resp.Error]

\* extractSnippet: the index it searches, and the bounds it slices body with
SnippetBounds(body, pattern) ==
    LET Around(index) ==
            [index |-> index,
             start |-> IF index - SnippetContext < 0
                       THEN 0
                       ELSE index - SnippetContext,
             end   |-> IF index + Len(pattern) + SnippetContext > Len(body)
                       THEN Len(body)
                       ELSE index + Len(pattern) + SnippetContext]
    IN  Call1(Around, Index(ToLower(body), ToLower(pattern)))

\* body[start:end] panics: Go checks 0 <= start <= end <= len(body)
SnippetPanics(body, pattern) ==
    LET b == SnippetBounds(body, pattern)
    IN  b.index # -1 /\ ~(0 <= b.start /\ b.start <= b.end /\ b.end <= Len(body))

\* extractSnippet
extractSnippet(body, pattern) ==
    LET Around(index) ==
            LET start == IF index - SnippetContext < 0
                         THEN 0
                         ELSE index - SnippetContext
                end   == IF index + Len(pattern) + SnippetContext > Len(body)
                         THEN Len(body)
                         ELSE index + Len(pattern) + SnippetContext
            IN  IF index = -1 THEN <<>> ELSE Slice(body, start, end)
    IN  Call1(Around, Index(ToLower(body), ToLower(pattern)))

\* the loop of checkVulnerabilities over matches[k..]: one Evidence appended
\* per match
RECURSIVE EvidenceFrom(_, _, _, _)
EvidenceFrom(matches, body, k, acc) ==
    IF k > Len(matches)
    THEN acc
    ELSE EvidenceFrom(matches, body, k + 1,
             Append(acc, [Service |-> matches[k].Service,
                          Pattern |-> matches[k].Pattern,
                          Notes   |-> matches[k].Notes,
                          Snippet |-> extractSnippet(body, matches[k].Pattern)]))

\* checkVulnerabilities with "len(matches) >= 0" for "len(matches) > 0"
checkVulnerabilitiesAnyCount(catalog, result, httpResp) ==
    LET Assess(m) ==
            IF m.err # <<>>
            THEN [result EXCEPT
                    !.Status = "error",
                    !.Error = <<"fingerprint matching error:">> \o m.err]
            ELSE IF Len(m.matches) >= 0
            THEN [result EXCEPT
                    !.Vulnerable = TRUE,
                    !.Status = "vulnerable",
                    !.Evidence = EvidenceFrom(m.matches, httpResp.Body, 1,
                                              result.Evidence)]
            ELSE [result EXCEPT !.Status = "not vulnerable"]
    IN  Call1(Assess, Match(catalog, httpResp.Body))

\* checkVulnerabilities with the matcher's error dropped: no match is assumed
checkVulnerabilitiesIgnoreError(catalog, result, httpResp) ==
    LET Assess(m) ==
            IF m.err = <<>> /\ Len(m.matches) > 0
            THEN [result EXCEPT
                    !.Vulnerable = TRUE,
                    !.Status = "vulnerable",
                    !.Evidence = EvidenceFrom(m.matches, httpResp.Body, 1,
                                              result.Evidence)]
            ELSE [result EXCEPT !.Status = "not vulnerable"]
    IN  Call1(Assess, Match(catalog, httpResp.Body))

\* checkVulnerabilities
checkVulnerabilities(catalog, result, httpResp) ==
    LET Assess(m) ==
            IF m.err # <<>>
            THEN [result EXCEPT
                    !.Status = "error",
                    !.Error = <<"fingerprint matching error:">> \o m.err]
            ELSE IF Len(m.matches) > 0
            THEN [result EXCEPT
                    !.Vulnerable = TRUE,
                    !.Status = "vulnerable",
                    !.Evidence = EvidenceFrom(m.matches, httpResp.Body, 1,
                                              result.Evidence)]
            ELSE [result EXCEPT !.Status = "not vulnerable"]
    IN  Call1(Assess, Match(catalog, httpResp.Body))

\* SelectedProtocol with the two tests in the other order
SelectedProtocolHTTPFirst(httpsResult, httpResult) ==
    IF httpResult # <<>> /\ httpResult[1].Error = <<>> THEN "http"
    ELSE IF httpsResult # <<>> /\ httpsResult[1].Error = <<>> THEN "https"
    ELSE "none"

\* the response scanSubdomain hands to the matcher: "https", "http" or "none"
SelectedProtocol(httpsResult, httpResult) ==
    IF httpsResult # <<>> /\ httpsResult[1].Error = <<>> THEN "https"
    ELSE IF httpResult # <<>> /\ httpResult[1].Error = <<>> THEN "http"
    ELSE "none"

\* BothFailedError with the HTTP message preferred
BothFailedErrorHTTPFirst(httpsResult, httpResult) ==
    IF httpResult # <<>> /\ httpResult[1].Error # <<>> THEN httpResult[1].Error
    ELSE IF httpsResult # <<>> /\ httpsResult[1].Error # <<>> THEN httpsResult[1].Error
    ELSE <<"both HTTPS and HTTP requests failed">>

\* the error message of scanSubdomain when no response is usable
BothFailedError(httpsResult, httpResult) ==
    IF httpsResult # <<>> /\ httpsResult[1].Error # <<>> THEN httpsResult[1].Error
    ELSE IF httpResult # <<>> /\ httpResult[1].Error # <<>> THEN httpResult[1].Error
    ELSE <<"both HTTPS and HTTP requests failed">>

\* Classify with the status left unset when no response is usable
ClassifyNoErrorStatus(catalog, subdomain, httpsResult, httpResult) ==
    LET result == [ZeroResult EXCEPT !.Subdomain = subdomain,
                                     !.HTTPSResponse = httpsResult,
                                     !.HTTPResponse = httpResult]
        sel == SelectedProtocol(httpsResult, httpResult)
    IN  IF sel = "https" THEN checkVulnerabilities(catalog, result, httpsResult[1])
        ELSE IF sel = "http" THEN checkVulnerabilities(catalog, result, httpResult[1])
        ELSE [result EXCEPT !.Error = BothFailedError(httpsResult, httpResult)]

\* scanSubdomain from the two tryProtocol results on
Classify(catalog, subdomain, httpsResult, httpResult) ==
    LET result == [ZeroResult EXCEPT !.Subdomain = subdomain,
                                     !.HTTPSResponse = httpsResult,
                                     !.HTTPResponse = httpResult]
        sel == SelectedProtocol(httpsResult, httpResult)
    IN  IF sel = "https" THEN checkVulnerabilities(catalog, result, httpsResult[1])
        ELSE IF sel = "http" THEN checkVulnerabilities(catalog, result, httpResult[1])
        ELSE [result EXCEPT !.Status = "error",
                            !.Error = BothFailedError(httpsResult, httpResult)]

\* the protocols on which scanSubdomain calls the matcher, in call order
MatcherCalls(httpsResult, httpResult) ==
    LET sel == SelectedProtocol(httpsResult, httpResult)
    IN  IF sel = "none" THEN <<>> ELSE <<sel>>

\* the entries of the trace of a probe: a sleep of some seconds, a doRequest
\* with its outcome o
SleepEvent(protocol, seconds) ==
    [kind |-> "sleep", protocol |-> protocol, seconds |-> seconds,
     ok |-> FALSE, StatusCode |-> 0, Body |-> <<>>, err |-> <<>>,
     followed |-> 0, hops |-> 0]

RequestEvent(protocol, o) ==
    [kind |-> "request", protocol |-> protocol, seconds |-> 0,
     ok |-> o.ok, StatusCode |-> o.StatusCode, Body |-> o.Body,
     err |-> o.err, followed |-> o.followed, hops |-> o.hops]

\* the trace after one more turn of the loop of Get
TurnTrace(p, retries, o) ==
    IF p.attempt > retries THEN p.trace
    ELSE p.trace
           \o [k \in 1..Len(SleepBefore(p.attempt)) |->
                  SleepEvent(p.stage, SleepBefore(p.attempt)[k])]
           \o <<RequestEvent(p.stage, o)>>

\* a probe (one call of scanSubdomain) that has just been entered; requests
\* logs the protocol of every doRequest it makes, matched the protocols whose
\* response it hands to the matcher, trace every time.Sleep and every
\* doRequest of its two Gets with what came back
ProbeBegin(subdomain) ==
    [sub |-> subdomain, stage |-> "https", attempt |-> 0, lastErr |-> <<>>,
     https |-> <<>>, http |-> <<>>, result |-> ZeroResult,
     requests |-> <<>>, matched |-> <<>>, trace |-> <<>>]

\* a probe that is not running
NoProbe == [ProbeBegin("") EXCEPT !.stage = "none"]

\* ProbeStep with the HTTP fetch skipped once the HTTPS fetch has succeeded
ProbeStepShortCircuit(catalog, retries, p, o) ==
    LET g == GetAttempt([attempt |-> p.attempt, lastErr |-> p.lastErr], retries, o)
        url == URL(p.stage, p.sub)
        reqs == IF p.attempt > retries THEN p.requests
                ELSE Append(p.requests, p.stage)
        tr == TurnTrace(p, retries, o)
    IN  IF ~g.done
        THEN [p EXCEPT !.attempt = g.attempt, !.lastErr = g.lastErr,
                       !.requests = reqs, !.trace = tr]
        ELSE IF p.stage = "https" /\ g.resp.Error # <<>>
        THEN [p EXCEPT !.stage = "http", !.attempt = 0, !.lastErr = <<>>,
                       !.requests = reqs, !.trace = tr,
                       !.https = <<tryProtocol(url, g.resp)>>]
        ELSE IF p.stage = "https"
        THEN LET httpsResult == <<tryProtocol(url, g.resp)>>
             IN  [p EXCEPT !.stage = "done", !.attempt = 0, !.lastErr = <<>>,
                           !.requests = reqs, !.trace = tr,
                           !.https = httpsResult,
                           !.matched = MatcherCalls(httpsResult, <<>>),
                           !.result = Classify(catalog, p.sub, httpsResult, <<>>)]
        ELSE LET httpResult == <<tryProtocol(url, g.resp)>>
             IN  [p EXCEPT !.stage = "done", !.attempt = 0, !.lastErr = <<>>,
                           !.requests = reqs, !.trace = tr,
                           !.http = httpResult,
                           !.matched = MatcherCalls(p.https, httpResult),
                           !.result = Classify(catalog, p.sub, p.https, httpResult)]

\* one step of scanSubdomain: the next attempt of the Get in progress, with
\* doRequest coming back with o; the second Get returning ends the probe
ProbeStep(catalog, retries, p, o) ==
    LET g == GetAttempt([attempt |-> p.attempt, lastErr |-> p.lastErr], retries, o)
        url == URL(p.stage, p.sub)
        reqs == IF p.attempt > retries THEN p.requests
                ELSE Append(p.requests, p.stage)
        tr == TurnTrace(p, retries, o)
    IN  IF ~g.done
        THEN [p EXCEPT !.attempt = g.attempt, !.lastErr = g.lastErr,
                       !.requests = reqs, !.trace = tr]
        ELSE IF p.stage = "https"
        THEN [p EXCEPT !.stage = "http", !.attempt = 0, !.lastErr = <<>>,
                       !.requests = reqs, !.trace = tr,
                       !.https = <<tryProtocol(url, g.resp)>>]
        ELSE LET httpResult == <<tryProtocol(url, g.resp)>>
             IN  [p EXCEPT !.stage = "done", !.attempt = 0, !.lastErr = <<>>,
                           !.requests = reqs, !.trace = tr,
                           !.http = httpResult,
                           !.matched = MatcherCalls(p.https, httpResult),
                           !.result = Classify(catalog, p.sub, p.https, httpResult)]

\* ------------------------------------------------------------ inputs

\* subdomain names of the input lists
Names == {"a.test", "b.test"}

\* the input lists: up to MaxSubs names, repetitions allowed; up to renaming,
\* a list that is not empty starts with "a.test"
SubdomainLists ==
    {subs \in UNION {[0..(n - 1) -> Names] : n \in 0..MaxSubs} :
        0 \in DOMAIN subs => subs[0] = "a.test"}

\* a substring fingerprint, a regex fingerprint, and a regex fingerprint that
\* does not compile (as a custom fingerprints file can supply)
FingerprintPool ==
    {[Service |-> "S1", Pattern |-> <<"A", "b">>, Notes |-> "n1", Regex |-> FALSE],
     [Service |-> "S2", Pattern |-> <<"a", ".">>, Notes |-> "n2", Regex |-> TRUE],
     [Service |-> "S3", Pattern |-> <<"(">>, Notes |-> "n3", Regex |-> TRUE]}

\* the catalogs: up to MaxCatalog fingerprints, in any order
Catalogs == UNION {[1..n -> FingerprintPool] : n \in 0..MaxCatalog}

\* the catalog of the scheduling runs: both valid fingerprints
DefaultCatalog ==
    <<[Service |-> "S1", Pattern |-> <<"A", "b">>, Notes |-> "n1", Regex |-> FALSE],
      [Service |-> "S2", Pattern |-> <<"a", ".">>, Notes |-> "n2", Regex |-> TRUE]>>

\* how the servers of the probing runs may answer: three responses (the
\* first matching both valid fingerprints, the second only the substring
\* one, the third none) and a transport failure
FullNetwork ==
    {[ok |-> TRUE, StatusCode |-> 200, Body |-> <<"a", "B">>, cause |-> "", hops |-> 0],
     [ok |-> TRUE, StatusCode |-> 404, Body |-> <<"A", "b">>, cause |-> "", hops |-> 0],
     [ok |-> TRUE, StatusCode |-> 500, Body |-> <<"b", "a">>, cause |-> "", hops |-> 0],
     [ok |-> FALSE, StatusCode |-> 0, Body |-> <<>>,
      cause |-> ": connection refused", hops |-> 0]}

\* how the servers of the scheduling runs may answer
SmallNetwork ==
    {[ok |-> TRUE, StatusCode |-> 200, Body |-> <<"a", "B">>, cause |-> "", hops |-> 0],
     [ok |-> FALSE, StatusCode |-> 0, Body |-> <<>>,
      cause |-> ": connection refused", hops |-> 0]}

\* how the servers of the fetching runs may answer a request: with a
\* response of some status code, at once or after a chain of redirects one
\* short of, at, or one over the limit, or not at all, for one of two causes
FetchAnswers ==
    {[ok |-> TRUE, StatusCode |-> 200, Body |-> <<"a", "B">>, cause |-> "", hops |-> 0],
     [ok |-> TRUE, StatusCode |-> 404, Body |-> <<"A", "b">>, cause |-> "", hops |-> 0],
     [ok |-> TRUE, StatusCode |-> 500, Body |-> <<"b", "a">>, cause |-> "", hops |-> 0],
     [ok |-> TRUE, StatusCode |-> 200, Body |-> <<"a", "B">>, cause |-> "",
      hops |-> MaxRedirects - 1],
     [ok |-> TRUE, StatusCode |-> 200, Body |-> <<"a", "B">>, cause |-> "",
      hops |-> MaxRedirects],
     [ok |-> TRUE, StatusCode |-> 200, Body |-> <<"a", "B">>, cause |-> "",
      hops |-> MaxRedirects + 1],
     [ok |-> FALSE, StatusCode |-> 0, Body |-> <<>>,
      cause |-> ": connection refused", hops |-> 0],
     [ok |-> FALSE, StatusCode |-> 0, Body |-> <<>>,
      cause |-> ": context deadline exceeded", hops |-> 0]}

\* the networks of the fetching runs: every request is answered in one of
\* at most two ways
FetchNetworks == {{a, b} : a, b \in FetchAnswers}

\* --timeout-retries values of the fetching runs
FetchRetryValues == 0..MaxRetries

\* the bytes of the response bodies of the body-reading runs
Alphabet == <<"a", "B", "c", "D", "e">>

Fill(n) == [k \in 1..n |-> Alphabet[(k % 5) + 1]]

\* their lengths: the shortest, those around the threshold of readBody, and
\* one more than twice the threshold
BodyLengths ==
    (0..3) \cup ((BodyLimit - MaxExcess)..(BodyLimit + MaxExcess))
           \cup {2 * BodyLimit + 1}

\* a response body on the connection (data), with the bytes the server has
\* sent or compressed when data is a well-formed gzip member, and data
\* itself when it only starts as one (content): sent as they are, gzipped,
\* or after the gzip magic number with an unknown method or a wrong check
WireBody(kind, n) ==
    IF kind = "plain"
    THEN [kind |-> kind, data |-> Fill(n), content |-> Fill(n)]
    ELSE IF kind = "gzip"
    THEN [kind |-> kind, data |-> GzipMember(Fill(n)), content |-> Fill(n)]
    ELSE IF kind = "gzip header"
    THEN [kind |-> kind, data |-> GzipMagic \o <<"0x00">> \o Fill(n),
          content |-> GzipMagic \o <<"0x00">> \o Fill(n)]
    ELSE [kind |-> kind,
          data |-> GzipMagic \o <<GzipDeflate>> \o Fill(n) \o <<"0xff">>,
          content |-> GzipMagic \o <<GzipDeflate>> \o Fill(n) \o <<"0xff">>]

WireKinds == {"plain", "gzip", "gzip header", "gzip check"}

\* --rate values: 0 is the default (worker pool), 2 paces at 500ms
RateValues == {0, 2}

\* --timeout-retries values
RetryValues == {0, 1}

\* ------------------------------------------------------------ state

VARIABLES
    network,         \* the environment: how a request may be answered
    config,          \* the *config.Config: [Rate, TimeoutRetries]
    fingerprints,    \* the catalog the scanner was built with
    subdomains,      \* the input list of the Scan call
    rateLimiter,     \* Scanner.rateLimiter: <<>> (nil) or <<[running, C]>>
    realtime,        \* TRUE in ScanWithRealtimeOutput
    pc,              \* where the goroutine that called Scan is
    i,               \* its loop counter
    results,         \* the results slice
    cur,             \* the probe in progress in the rate-limited loop
    subdomainChan,   \* the work queue: buffered indices
    subdomainClosed, \* close(subdomainChan) has run
    resultChan,      \* the result channel: buffered [index, result] pairs
    resultCloses,    \* how many times close(resultChan) has run
    wg,              \* the WaitGroup counter
    workers,         \* the bag of live worker goroutines: [pc, index, probe]
    watcher,         \* the completion watcher: "none", "wait", "done"
    printed,         \* what printResult has been called with, in call order
    probed,          \* per index, how many times scanSubdomain was entered
    produced,        \* per index, what the probes of it returned, in order
    written,         \* per index, how many times results[index] was assigned
    panicked,        \* "" or the runtime panic that ended the program
    wire,            \* the body-reading runs: <<the bytes of a response body>>
    fetched,         \* and <<what readBody returned for them>>, <<>> before
    clock,           \* the runtime's clock and what the scan did when, in ns
    listFile,        \* the -l file the list was loaded from: <<>> or <<bytes>>
    args,            \* the positional arguments of the scan command
    outputFile,      \* the -o flag: "" or the name of the file to write
    fingerprintsFile, \* the --fingerprints file: <<>> or <<its catalog>>
    disk,            \* the output file: <<>> or <<what was encoded into it>>
    exitErr,         \* the error runScan returned, <<>> being nil
    snippetRun       \* the snippet runs: <<>> or <<[body, pattern, ...]>>

\* what a scan never changes
inputs == <<network, config, fingerprints, subdomains, wire, fetched, clock,
            listFile, args, outputFile, fingerprintsFile, disk, exitErr,
            snippetRun>>

\* the scanner is used directly: no scan command, no snippet run
Direct ==
    /\ args = <<>>
    /\ outputFile = ""
    /\ fingerprintsFile = <<>>
    /\ disk = <<>>
    /\ exitErr = <<>>
    /\ snippetRun = <<>>

\* the state of the worker pool's channels and goroutines
pool == <<subdomainChan, subdomainClosed, resultChan, resultCloses, wg,
          workers, watcher>>

vars == <<inputs, rateLimiter, realtime, pc, i, results, cur, pool, printed,
          probed, produced, written, panicked>>

N == Cardinality(DOMAIN subdomains)

\* interval := time.Second / time.Duration(cfg.Rate)
Interval(rate) == Second \div rate

\* the clock when New returns: the ticker, if there is one, fires first one
\* interval from now; Scan has neither started nor returned, nothing was sent
ClockAtNew(cfg) ==
    [now |-> 0,
     next |-> IF cfg.Rate > 0 THEN Interval(cfg.Rate) ELSE 0,
     start |-> -1,
     end |-> -1,
     sent |-> <<>>]

\* scanner.New, then the state before Scan is called
New(net, cfg, fp, subs) ==
    /\ network = net
    /\ config = cfg
    /\ fingerprints = fp
    /\ subdomains = subs
    /\ rateLimiter = IF cfg.Rate > 0 /\ Interval(cfg.Rate) > 0
                     THEN <<[running |-> TRUE, C |-> 0]>>
                     ELSE <<>>
    /\ realtime = FALSE
    /\ pc = "new"
    /\ i = 0
    /\ results = <<>>
    /\ cur = NoProbe
    /\ subdomainChan = <<>>
    /\ subdomainClosed = FALSE
    /\ resultChan = <<>>
    /\ resultCloses = 0
    /\ wg = 0
    /\ workers = EmptyBag
    /\ watcher = "none"
    /\ printed = <<>>
    /\ probed = [k \in DOMAIN subs |-> 0]
    /\ produced = [k \in DOMAIN subs |-> <<>>]
    /\ written = [k \in DOMAIN subs |-> 0]
    /\ panicked = IF cfg.Rate > 0 /\ Interval(cfg.Rate) <= 0
                  THEN "non-positive interval for NewTicker"
                  ELSE ""
    /\ fetched = <<>>
    /\ clock = ClockAtNew(cfg)

\* scheduling runs: every input list, the default catalog, no retry
Init ==
    \E rate \in RateValues, subs \in SubdomainLists :
        /\ New(SmallNetwork, [Rate |-> rate, TimeoutRetries |-> 0],
               DefaultCatalog, subs)
        /\ wire = <<>>
        /\ listFile = <<>>
        /\ Direct

\* termination runs: lists of every length (the scheduler never looks at the
\* names, so one name serves), the default catalog, no retry, a network on
\* which every request is answered or every request fails
FairInit ==
    \E rate \in RateValues, n \in 0..MaxSubs, answer \in SmallNetwork :
        /\ New({answer}, [Rate |-> rate, TimeoutRetries |-> 0],
               DefaultCatalog, [k \in 0..(n - 1) |-> "a.test"])
        /\ wire = <<>>
        /\ listFile = <<>>
        /\ Direct

\* probing runs: one subdomain, every catalog, every retry count
ProbeInit ==
    \E rate \in RateValues, retries \in RetryValues, fp \in Catalogs,
       name \in Names :
        /\ New(FullNetwork, [Rate |-> rate, TimeoutRetries |-> retries], fp,
               [k \in {0} |-> name])
        /\ wire = <<>>
        /\ listFile = <<>>
        /\ Direct

\* fetching runs: one subdomain probed in the rate-limited loop, the default
\* catalog, every retry count, every network
FetchInit ==
    \E rate \in {r \in RateValues : r > 0}, retries \in FetchRetryValues,
       net \in FetchNetworks :
        /\ New(net, [Rate |-> rate, TimeoutRetries |-> retries],
               DefaultCatalog, [k \in {0} |-> "a.test"])
        /\ wire = <<>>
        /\ listFile = <<>>
        /\ Direct

\* body-reading runs: a response body is on the connection, no scan is run
BodyInit ==
    \E kind \in WireKinds, n \in BodyLengths :
        /\ New(SmallNetwork, [Rate |-> 0, TimeoutRetries |-> 0],
               DefaultCatalog, <<>>)
        /\ wire = <<WireBody(kind, n)>>
        /\ listFile = <<>>
        /\ Direct

\* ------------------------------------------------------------ readBody

\* readBody returns for the body on the connection
ReadBody ==
    /\ wire # <<>>
    /\ fetched = <<>>
    /\ fetched' = <<readBody(wire[1].data)>>
    /\ UNCHANGED <<network, config, fingerprints, subdomains, wire, clock,
                   listFile, args, outputFile, fingerprintsFile, disk,
                   exitErr, snippetRun, rateLimiter, realtime, pc, i, results, cur, pool, printed,
                   probed, produced, written, panicked>>

\* ------------------------------------------------------------ Scan

\* Enter with the rate-limited mode taken for every rate but 0
EnterRateNonZero(rt) ==
    /\ panicked = ""
    /\ pc = "new"
    /\ realtime' = rt
    /\ results' = [k \in DOMAIN subdomains |-> ZeroResult]
    /\ i' = 0
    /\ pc' = IF config.Rate # 0 THEN "ratelimit" ELSE "spawn"
    /\ UNCHANGED <<inputs, rateLimiter, cur, pool, printed, probed, produced,
                   written, panicked>>

\* Scan / ScanWithRealtimeOutput up to the call of the mode's loop
Enter(rt) ==
    /\ panicked = ""
    /\ pc = "new"
    /\ realtime' = rt
    /\ results' = [k \in DOMAIN subdomains |-> ZeroResult]
    /\ i' = 0
    /\ pc' = IF config.Rate > 0 THEN "ratelimit" ELSE "spawn"
    /\ UNCHANGED <<inputs, rateLimiter, cur, pool, printed, probed, produced,
                   written, panicked>>

Scan == Enter(FALSE)

ScanWithRealtimeOutput == Enter(TRUE)

\* Place with the slot taken in arrival order instead of from the index
PlaceInArrivalOrder(index, result) ==
    LET at == Cardinality({k \in DOMAIN written : written[k] > 0})
    IN  /\ results' = [results EXCEPT ![at] = result]
        /\ written' = [written EXCEPT ![at] = @ + 1]
        /\ printed' = IF realtime THEN Append(printed, result) ELSE printed

\* Place with the result printed twice in the real-time variants
PlacePrintTwice(index, result) ==
    /\ results' = [results EXCEPT ![index] = result]
    /\ written' = [written EXCEPT ![index] = @ + 1]
    /\ printed' = IF realtime
                  THEN Append(Append(printed, result), result)
                  ELSE printed

\* Place with the result only printed, not stored, in the real-time variants
PlacePrintOnly(index, result) ==
    /\ results' = IF realtime THEN results
                  ELSE [results EXCEPT ![index] = result]
    /\ written' = [written EXCEPT ![index] = @ + 1]
    /\ printed' = IF realtime THEN Append(printed, result) ELSE printed

\* results[index] = result, and printResult(result) in the real-time variants
Place(index, result) ==
    /\ results' = [results EXCEPT ![index] = result]
    /\ written' = [written EXCEPT ![index] = @ + 1]
    /\ printed' = IF realtime THEN Append(printed, result) ELSE printed

\* scanSubdomain(subdomains[index]) goes one step on from p, doRequest coming
\* back with o; what it returns is recorded in produced
Probe(index, p, o) ==
    ProbeStep(fingerprints, config.TimeoutRetries, p, o)

Returned(index, q) ==
    IF q.stage = "done"
    THEN [produced EXCEPT ![index] = Append(@, q.result)]
    ELSE produced

\* ------------------------------------------------------------ rate-limited

\* the runtime timer: a tick is buffered in C unless one is already waiting
Tick ==
    /\ panicked = ""
    /\ rateLimiter # <<>>
    /\ rateLimiter[1].running
    /\ rateLimiter[1].C = 0
    /\ rateLimiter' = <<[rateLimiter[1] EXCEPT !.C = 1]>>
    /\ UNCHANGED <<inputs, realtime, pc, i, results, cur, pool, printed,
                   probed, produced, written, panicked>>

\* RateLimitWait with the receive from the ticker's channel left out
RateLimitWaitNoTick ==
    /\ panicked = ""
    /\ pc = "ratelimit"
    /\ i < N
    /\ cur' = ProbeBegin(subdomains[i])
    /\ probed' = [probed EXCEPT ![i] = @ + 1]
    /\ pc' = "ratelimit_probe"
    /\ UNCHANGED <<inputs, rateLimiter, realtime, i, results, pool, printed,
                   produced, written, panicked>>

\* scanWithRateLimit[Realtime]: the head of an iteration: <-s.rateLimiter.C,
\* then scanSubdomain is entered
RateLimitWait ==
    /\ panicked = ""
    /\ pc = "ratelimit"
    /\ i < N
    /\ rateLimiter # <<>> => rateLimiter[1].C > 0
    /\ rateLimiter' = IF rateLimiter # <<>>
                      THEN <<[rateLimiter[1] EXCEPT !.C = 0]>>
                      ELSE rateLimiter
    /\ cur' = ProbeBegin(subdomains[i])
    /\ probed' = [probed EXCEPT ![i] = @ + 1]
    /\ pc' = "ratelimit_probe"
    /\ UNCHANGED <<inputs, realtime, i, results, pool, printed, produced,
                   written, panicked>>

\* scanSubdomain running in the rate-limited loop
RateLimitProbe ==
    /\ panicked = ""
    /\ pc = "ratelimit_probe"
    /\ cur.stage \in {"https", "http"}
    /\ \E o \in DoRequestOutcomes(network, URL(cur.stage, cur.sub)) :
           /\ cur' = Probe(i, cur, o)
           /\ produced' = Returned(i, cur')
    /\ UNCHANGED <<inputs, rateLimiter, realtime, pc, i, results, pool,
                   printed, probed, written, panicked>>

\* results[i] = s.scanSubdomain(subdomain), and the print of the real-time loop
RateLimitStore ==
    /\ panicked = ""
    /\ pc = "ratelimit_probe"
    /\ cur.stage = "done"
    /\ Place(i, cur.result)
    /\ cur' = NoProbe
    /\ i' = i + 1
    /\ pc' = "ratelimit"
    /\ UNCHANGED <<inputs, rateLimiter, realtime, pool, probed, produced,
                   panicked>>

\* the range over subdomains is exhausted: the loop and Scan return
RateLimitReturn ==
    /\ panicked = ""
    /\ pc = "ratelimit"
    /\ i >= N
    /\ pc' = "done"
    /\ UNCHANGED <<inputs, rateLimiter, realtime, i, results, cur, pool,
                   printed, probed, produced, written, panicked>>

\* ------------------------------------------------------------ worker pool

\* a worker goroutine blocked in "for index := range subdomainChan"
IdleWorker == [pc |-> "range", index |-> -1, probe |-> NoProbe]

\* the bag with worker w replaced by worker v
Become(w, v) == (workers (-) SetToBag({w})) (+) SetToBag({v})

\* StartWorker with one worker per subdomain instead of maxWorkers
StartWorkerPerSubdomain ==
    /\ panicked = ""
    /\ pc = "spawn"
    /\ i < N
    /\ wg' = wg + 1
    /\ workers' = workers (+) SetToBag({IdleWorker})
    /\ i' = IF i + 1 < N THEN i + 1 ELSE 0
    /\ pc' = IF i + 1 < N THEN "spawn" ELSE "send"
    /\ UNCHANGED <<inputs, rateLimiter, realtime, results, cur, subdomainChan,
                   subdomainClosed, resultChan, resultCloses, watcher,
                   printed, probed, produced, written, panicked>>

\* scanWithWorkers[Realtime]: one turn of the loop that starts the workers:
\* wg.Add(1); go func() {...}()
StartWorker ==
    /\ panicked = ""
    /\ pc = "spawn"
    /\ i < maxWorkers
    /\ wg' = wg + 1
    /\ workers' = workers (+) SetToBag({IdleWorker})
    /\ i' = IF i + 1 < maxWorkers THEN i + 1 ELSE 0
    /\ pc' = IF i + 1 < maxWorkers THEN "spawn" ELSE "send"
    /\ UNCHANGED <<inputs, rateLimiter, realtime, results, cur, subdomainChan,
                   subdomainClosed, resultChan, resultCloses, watcher,
                   printed, probed, produced, written, panicked>>

\* SendWork with every send carrying index 0
SendWorkFirstIndex ==
    /\ panicked = ""
    /\ pc = "send"
    /\ i < N
    /\ Len(subdomainChan) < N
    /\ subdomainChan' = Append(subdomainChan, 0)
    /\ panicked' = IF subdomainClosed THEN "send on closed channel" ELSE panicked
    /\ i' = i + 1
    /\ UNCHANGED <<inputs, rateLimiter, realtime, pc, results, cur,
                   subdomainClosed, resultChan, resultCloses, wg, workers,
                   watcher, printed, probed, produced, written>>

\* subdomainChan <- i (capacity len(subdomains))
SendWork ==
    /\ panicked = ""
    /\ pc = "send"
    /\ i < N
    /\ Len(subdomainChan) < N
    /\ subdomainChan' = Append(subdomainChan, i)
    /\ panicked' = IF subdomainClosed THEN "send on closed channel" ELSE panicked
    /\ i' = i + 1
    /\ UNCHANGED <<inputs, rateLimiter, realtime, pc, results, cur,
                   subdomainClosed, resultChan, resultCloses, wg, workers,
                   watcher, printed, probed, produced, written>>

\* close(subdomainChan)
CloseWork ==
    /\ panicked = ""
    /\ pc = "send"
    /\ i >= N
    /\ subdomainClosed' = TRUE
    /\ pc' = "watch"
    /\ UNCHANGED <<inputs, rateLimiter, realtime, i, results, cur,
                   subdomainChan, resultChan, resultCloses, wg, workers,
                   watcher, printed, probed, produced, written, panicked>>

\* go func() { wg.Wait(); close(resultChan) }()
StartWatcher ==
    /\ panicked = ""
    /\ pc = "watch"
    /\ watcher' = "wait"
    /\ pc' = "collect"
    /\ UNCHANGED <<inputs, rateLimiter, realtime, i, results, cur,
                   subdomainChan, subdomainClosed, resultChan, resultCloses,
                   wg, workers, printed, probed, produced, written, panicked>>

\* WatcherClose without the wg.Wait()
WatcherCloseNoWait ==
    /\ panicked = ""
    /\ watcher = "wait"
    /\ resultCloses' = resultCloses + 1
    /\ panicked' = IF resultCloses > 0 THEN "close of closed channel" ELSE panicked
    /\ watcher' = "done"
    /\ UNCHANGED <<inputs, rateLimiter, realtime, pc, i, results, cur,
                   subdomainChan, subdomainClosed, resultChan, wg, workers,
                   printed, probed, produced, written>>

\* the watcher: wg.Wait() returns, close(resultChan)
WatcherClose ==
    /\ panicked = ""
    /\ watcher = "wait"
    /\ wg = 0
    /\ resultCloses' = resultCloses + 1
    /\ panicked' = IF resultCloses > 0 THEN "close of closed channel" ELSE panicked
    /\ watcher' = "done"
    /\ UNCHANGED <<inputs, rateLimiter, realtime, pc, i, results, cur,
                   subdomainChan, subdomainClosed, resultChan, wg, workers,
                   printed, probed, produced, written>>

\* a worker receives an index from the work queue and enters scanSubdomain
WorkerReceive ==
    /\ panicked = ""
    /\ BagIn(IdleWorker, workers)
    /\ subdomainChan # <<>>
    /\ LET index == Head(subdomainChan)
       IN  /\ workers' = Become(IdleWorker,
                                [pc |-> "probe", index |-> index,
                                 probe |-> ProbeBegin(subdomains[index])])
           /\ probed' = [probed EXCEPT ![index] = @ + 1]
    /\ subdomainChan' = Tail(subdomainChan)
    /\ UNCHANGED <<inputs, rateLimiter, realtime, pc, i, results, cur,
                   subdomainClosed, resultChan, resultCloses, wg, watcher,
                   printed, produced, written, panicked>>

\* scanSubdomain running in a worker
WorkerProbe ==
    /\ panicked = ""
    /\ \E w \in BagToSet(workers) :
        /\ w.pc = "probe"
        /\ w.probe.stage \in {"https", "http"}
        /\ \E o \in DoRequestOutcomes(network, URL(w.probe.stage, w.probe.sub)) :
            LET q == Probe(w.index, w.probe, o)
            IN  /\ workers' = Become(w, [w EXCEPT !.probe = q])
                /\ produced' = Returned(w.index, q)
    /\ UNCHANGED <<inputs, rateLimiter, realtime, pc, i, results, cur,
                   subdomainChan, subdomainClosed, resultChan, resultCloses,
                   wg, watcher, printed, probed, written, panicked>>

\* resultChan <- {index, result} (capacity len(subdomains)), then back to range
WorkerSend ==
    /\ panicked = ""
    /\ \E w \in BagToSet(workers) :
        /\ w.pc = "probe"
        /\ w.probe.stage = "done"
        /\ Len(resultChan) < N
        /\ resultChan' = Append(resultChan,
                                [index |-> w.index, result |-> w.probe.result])
        /\ workers' = Become(w, IdleWorker)
    /\ panicked' = IF resultCloses > 0 THEN "send on closed channel" ELSE panicked
    /\ UNCHANGED <<inputs, rateLimiter, realtime, pc, i, results, cur,
                   subdomainChan, subdomainClosed, resultCloses, wg, watcher,
                   printed, probed, produced, written>>

\* WorkerExit without the wg.Done()
WorkerExitNoDone ==
    /\ panicked = ""
    /\ BagIn(IdleWorker, workers)
    /\ subdomainChan = <<>>
    /\ subdomainClosed
    /\ workers' = workers (-) SetToBag({IdleWorker})
    /\ UNCHANGED <<inputs, rateLimiter, realtime, pc, i, results, cur,
                   subdomainChan, subdomainClosed, resultChan, resultCloses,
                   wg, watcher, printed, probed, produced, written, panicked>>

\* the range over the closed, drained work queue ends: wg.Done(), the worker
\* goroutine ends
WorkerExit ==
    /\ panicked = ""
    /\ BagIn(IdleWorker, workers)
    /\ subdomainChan = <<>>
    /\ subdomainClosed
    /\ workers' = workers (-) SetToBag({IdleWorker})
    /\ wg' = wg - 1
    /\ UNCHANGED <<inputs, rateLimiter, realtime, pc, i, results, cur,
                   subdomainChan, subdomainClosed, resultChan, resultCloses,
                   watcher, printed, probed, produced, written, panicked>>

\* the collector receives a pair: results[result.index] = result.result, and
\* the print of the real-time variant
Collect ==
    /\ panicked = ""
    /\ pc = "collect"
    /\ resultChan # <<>>
    /\ Place(Head(resultChan).index, Head(resultChan).result)
    /\ resultChan' = Tail(resultChan)
    /\ UNCHANGED <<inputs, rateLimiter, realtime, pc, i, cur, subdomainChan,
                   subdomainClosed, resultCloses, wg, workers, watcher,
                   probed, produced, panicked>>

\* the range over the closed, drained result channel ends: Scan returns
CollectReturn ==
    /\ panicked = ""
    /\ pc = "collect"
    /\ resultChan = <<>>
    /\ resultCloses > 0
    /\ pc' = "done"
    /\ UNCHANGED <<inputs, rateLimiter, realtime, i, results, cur, pool,
                   printed, probed, produced, written, panicked>>

\* ------------------------------------------------------------ specification

Next ==
    \/ Scan
    \/ ScanWithRealtimeOutput
    \/ Tick
    \/ RateLimitWait
    \/ RateLimitProbe
    \/ RateLimitStore
    \/ RateLimitReturn
    \/ StartWorker
    \/ SendWork
    \/ CloseWork
    \/ StartWatcher
    \/ WatcherClose
    \/ WorkerReceive
    \/ WorkerProbe
    \/ WorkerSend
    \/ WorkerExit
    \/ Collect
    \/ CollectReturn

\* a scanner built with a rate: the steps of the rate-limited loop
FetchNext ==
    \/ Scan
    \/ ScanWithRealtimeOutput
    \/ Tick
    \/ RateLimitWait
    \/ RateLimitProbe
    \/ RateLimitStore
    \/ RateLimitReturn

\* the scheduling runs
Spec == Init /\ [][Next]_vars

\* the fetching runs
FetchSpec == FetchInit /\ [][FetchNext]_vars

\* the body-reading runs
BodySpec == BodyInit /\ [][ReadBody]_vars

\* the probing runs
ProbeSpec == ProbeInit /\ [][Next]_vars

\* the termination runs, under the runtime's scheduling: a goroutine that can
\* take a step is not held back for ever, a request is answered, the timer
\* ticks
FairSpec == FairInit /\ [][Next]_vars /\ WF_vars(Next)

\* ------------------------------------------------------------ properties

\* the scan runs in worker-pool mode
PoolMode == config.Rate <= 0

\* the probes in progress or finished and not yet handed over
LiveProbes ==
    {q \in {w.probe : w \in BagToSet(workers)} \cup {cur} : q.stage # "none"}

\* the results the probes have returned so far
ProducedResults ==
    UNION {{produced[k][j] : j \in 1..Len(produced[k])} : k \in DOMAIN produced}

\* C1: in worker-pool mode, when Scan (or ScanWithRealtimeOutput) has
\* returned, the results array has one slot per input subdomain and slot k
\* holds what the probe of subdomains[k] returned, whose subdomain is
\* subdomains[k], whatever the order in which the workers finished.
C1_ResultsInInputOrder ==
    (PoolMode /\ pc = "done") =>
        /\ DOMAIN results = DOMAIN subdomains
        /\ \A k \in DOMAIN subdomains :
            /\ results[k].Subdomain = subdomains[k]
            /\ produced[k] = <<results[k]>>

\* C1 witness: a returned real-time pool scan of two different subdomains
\* whose second result was collected first and differs from the first's.
C1_Witness ==
    /\ PoolMode /\ pc = "done" /\ realtime
    /\ N >= 2
    /\ subdomains[0] # subdomains[1]
    /\ results[0].Status # results[1].Status
    /\ printed[1] = results[1]

\* C2: in both modes no index is probed twice and no slot is written twice,
\* a slot is written only once the probe of its index has returned, and
\* when the scan has returned every index has been probed once and every
\* slot written once.
C2_EachIndexOnce ==
    \A k \in DOMAIN subdomains :
        /\ probed[k] <= 1
        /\ Len(produced[k]) <= probed[k]
        /\ written[k] <= Len(produced[k])
        /\ pc = "done" => (probed[k] = 1 /\ written[k] = 1)

\* C2 witness: a returned pool scan of two subdomains, each probed once and
\* each slot written once.
C2_Witness ==
    /\ PoolMode /\ pc = "done"
    /\ N >= 2
    /\ \A k \in DOMAIN subdomains : probed[k] = 1 /\ written[k] = 1

\* Scan has returned from the worker pool with everything wound up: the work
\* queue closed and empty, every worker gone, the result channel closed by
\* the watcher and drained, every slot written
PoolReturned ==
    /\ pc = "done"
    /\ subdomainClosed /\ subdomainChan = <<>>
    /\ workers = EmptyBag /\ wg = 0
    /\ watcher = "done" /\ resultCloses = 1
    /\ resultChan = <<>>
    /\ \A k \in DOMAIN subdomains : written[k] = 1

C4_CloseAfterWorkers ==
    /\ resultCloses <= 1
    /\ resultCloses > 0 => (workers = EmptyBag /\ wg = 0 /\ subdomainClosed)
    /\ subdomainClosed => (pc \notin {"new", "spawn", "send"} /\ i = N)
    /\ panicked = ""

\* C4 witness: the result channel is closed while results of two probes are
\* still waiting in it.
C4_Witness ==
    /\ resultCloses = 1
    /\ Len(resultChan) >= 2
    /\ pc = "collect"

\* ------------------------------------------------------------ prober properties

\* the results written into the results array so far
PlacedResults == {results[k] : k \in {j \in DOMAIN results : written[j] > 0}}

\* the probes that have returned and whose result is not yet handed over
FinishedProbes == {q \in LiveProbes : q.stage = "done"}

\* a fetch came back with a response and no error / with an error
Usable(resp) == resp # <<>> /\ resp[1].Error = <<>>

FetchFailed(resp) == resp # <<>> /\ resp[1].Error # <<>>

\* the response the prober is to classify from: the HTTPS one if that fetch
\* has no error, else the HTTP one
SelectedResponse(r) ==
    IF Usable(r.HTTPSResponse) THEN r.HTTPSResponse[1] ELSE r.HTTPResponse[1]

\* some fetch of r is usable and the matcher returns an error on the
\* selected response
MatcherFailedOn(r) ==
    /\ Usable(r.HTTPSResponse) \/ Usable(r.HTTPResponse)
    /\ Match(fingerprints, SelectedResponse(r).Body).err # <<>>

\* the fingerprints of the catalog that match body, in catalog order: a
\* substring fingerprint by case-insensitive containment, a regex one by its
\* compiled pattern on the raw body
MatchingFingerprints(body) ==
    LET Hit(f) == IF f.Regex
                  THEN RegexCompiles(f.Pattern) /\ RegexMatchString(f.Pattern, body)
                  ELSE \E at \in 0..Len(body) :
                          OccursAt(ToLower(body), ToLower(f.Pattern), at)
    IN  SelectSeq(fingerprints, Hit)

\* C5: every ScanResult the prober returns has vulnerable = true iff its
\* status is vulnerable iff its evidence list is not empty.
C5_VulnerableIffEvidence ==
    \A r \in ProducedResults :
        /\ r.Vulnerable <=> r.Status = "vulnerable"
        /\ r.Status = "vulnerable" <=> r.Evidence # <<>>

\* C5 witness: a returned result that is vulnerable with two evidence entries.
C5_Witness ==
    \E r \in ProducedResults :
        r.Vulnerable /\ r.Status = "vulnerable" /\ Len(r.Evidence) = 2

\* C6: every ScanResult placed in the results array has status vulnerable,
\* not vulnerable or error, never the unset one, and its status is error iff
\* both fetches failed or the matcher returned an error on the selected
\* response.
C6_StatusSetErrorIff ==
    \A r \in PlacedResults :
        /\ r.Status \in {"vulnerable", "not vulnerable", "error"}
        /\ r.Status = "error" <=>
              \/ ~Usable(r.HTTPSResponse) /\ ~Usable(r.HTTPResponse)
              \/ MatcherFailedOn(r)

\* C6 witness: a placed result with status error whose HTTPS fetch succeeded:
\* the matcher failed.
C6_Witness ==
    \E r \in PlacedResults : r.Status = "error" /\ Usable(r.HTTPSResponse)

\* the selection and the single matcher run of C7: a finished probe has
\* handed to the matcher the HTTPS response if that fetch has no error, the
\* HTTP response only if the HTTPS fetch failed and the HTTP one did not, and
\* nothing else
SelectionRule ==
    \A q \in FinishedProbes :
        q.matched = IF Usable(q.https) THEN <<"https">>
                    ELSE IF Usable(q.http) THEN <<"http">>
                    ELSE <<>>

\* C7 as claimed: the selection rule, and for every result with a selected
\* response the status is vulnerable iff the selected body matches at least
\* one fingerprint, otherwise not vulnerable.
C7_StatusFromSelectedBody ==
    /\ SelectionRule
    /\ \A r \in ProducedResults :
        (Usable(r.HTTPSResponse) \/ Usable(r.HTTPResponse)) =>
            LET hits == MatchingFingerprints(SelectedResponse(r).Body)
            IN  /\ r.Status = "vulnerable" <=> hits # <<>>
                /\ hits = <<>> => r.Status = "not vulnerable"

\* C7 amended: the selection rule, and for every result with a selected
\* response on which the matcher returns no error, the status is vulnerable
\* iff the selected body matches at least one fingerprint, otherwise not
\* vulnerable, and the evidence is that of the selected body alone.
C7_StatusFromSelectedBodyNoMatcherError ==
    /\ SelectionRule
    /\ \A r \in ProducedResults :
        ((Usable(r.HTTPSResponse) \/ Usable(r.HTTPResponse)) /\ ~MatcherFailedOn(r)) =>
            LET body == SelectedResponse(r).Body
                hits == MatchingFingerprints(body)
            IN  /\ r.Status = "vulnerable" <=> hits # <<>>
                /\ hits = <<>> => r.Status = "not vulnerable"
                /\ Len(r.Evidence) = Len(hits)
                /\ \A k \in 1..Len(hits) :
                      /\ r.Evidence[k].Service = hits[k].Service
                      /\ r.Evidence[k].Pattern = hits[k].Pattern

\* C7 witness: both fetches succeeded, the HTTPS body matches no fingerprint
\* and the HTTP body does: the result is not vulnerable.
C7_Witness ==
    \E r \in ProducedResults :
        /\ Usable(r.HTTPSResponse) /\ Usable(r.HTTPResponse)
        /\ ~MatcherFailedOn(r)
        /\ MatchingFingerprints(r.HTTPSResponse[1].Body) = <<>>
        /\ MatchingFingerprints(r.HTTPResponse[1].Body) # <<>>
        /\ r.Status = "not vulnerable"

\* how many requests of the log went to protocol
RequestsTo(q, protocol) ==
    Cardinality({k \in DOMAIN q.requests : q.requests[k] = protocol})

\* C8: every probe makes its requests to https://<subdomain> first and to
\* http://<subdomain> second, the HTTP fetch starting only once the HTTPS
\* fetch with its retries has returned; a finished probe has made both
\* fetches whatever the first one gave, and every result carries both
\* responses, for the URLs of its subdomain.
C8_BothFetchesInOrder ==
    /\ \A q \in LiveProbes :
        /\ \A a, b \in DOMAIN q.requests :
              (q.requests[a] = "http" /\ q.requests[b] = "https") => b < a
        /\ RequestsTo(q, "http") > 0 => q.https # <<>>
        /\ q.stage = "https" => (q.https = <<>> /\ q.http = <<>>)
        /\ q.stage = "http" => (q.https # <<>> /\ q.http = <<>>)
        /\ q.stage = "done" =>
              /\ q.https # <<>> /\ q.http # <<>>
              /\ RequestsTo(q, "https") \in 1..(config.TimeoutRetries + 1)
              /\ RequestsTo(q, "http") \in 1..(config.TimeoutRetries + 1)
    /\ \A r \in ProducedResults :
        /\ r.HTTPSResponse # <<>> /\ r.HTTPResponse # <<>>
        /\ r.HTTPSResponse[1].URL = URL("https", r.Subdomain)
        /\ r.HTTPResponse[1].URL = URL("http", r.Subdomain)

\* C8 witness: a finished probe whose HTTPS fetch succeeded at once and whose
\* HTTP fetch was made all the same, and retried.
C8_Witness ==
    \E q \in FinishedProbes :
        /\ q.requests = <<"https", "http", "http">>
        /\ Usable(q.https)
        /\ q.result.HTTPResponse = q.http

\* C9: when both fetches failed the result has status error, is not
\* vulnerable, has no evidence, and its error message is not empty and is
\* the HTTPS failure message.
C9_BothFailedError ==
    \A r \in ProducedResults :
        (FetchFailed(r.HTTPSResponse) /\ FetchFailed(r.HTTPResponse)) =>
            /\ r.Status = "error"
            /\ ~r.Vulnerable
            /\ r.Evidence = <<>>
            /\ r.Error # <<>>
            /\ r.Error = r.HTTPSResponse[1].Error

\* C9 witness: a result both of whose fetches failed, with different
\* messages, that carries the HTTPS one.
C9_Witness ==
    \E r \in ProducedResults :
        /\ FetchFailed(r.HTTPSResponse) /\ FetchFailed(r.HTTPResponse)
        /\ r.HTTPSResponse[1].Error # r.HTTPResponse[1].Error
        /\ r.Error = r.HTTPSResponse[1].Error

\* C10: when the matcher returns an error on the selected response the
\* result has status error, is not vulnerable, has no evidence and an error
\* message that carries the matcher's error; the matcher was run on the
\* selected response only, not on the other protocol's as a fallback.
C10_MatcherErrorIsError ==
    /\ \A r \in ProducedResults :
        MatcherFailedOn(r) =>
            /\ r.Status = "error"
            /\ ~r.Vulnerable
            /\ r.Evidence = <<>>
            /\ Contains(r.Error, Match(fingerprints, SelectedResponse(r).Body).err)
    /\ \A q \in FinishedProbes :
        MatcherFailedOn(q.result) =>
            q.matched = IF Usable(q.https) THEN <<"https">> ELSE <<"http">>

\* C10 witness: both fetches succeeded, the first fingerprint of the catalog
\* matches the HTTPS body, the second does not compile: the finished probe's
\* status is error and the matcher ran on the HTTPS response alone.
C10_Witness ==
    \E q \in FinishedProbes :
        /\ Usable(q.https) /\ Usable(q.http)
        /\ Len(fingerprints) = 2
        /\ FingerprintMatch(fingerprints[1], q.https[1].Body).matched
        /\ ~RegexCompiles(fingerprints[2].Pattern)
        /\ q.result.Status = "error"
        /\ q.matched = <<"https">>

\* ------------------------------------------------------------ fetcher properties

Protocols == {"https", "http"}

\* the doRequest calls of the Get of q for protocol, in call order
RequestsOf(q, protocol) ==
    LET Is(e) == e.kind = "request" /\ e.protocol = protocol
    IN  SelectSeq(q.trace, Is)

\* what the Get of q for protocol has returned: <<>> while it has not
GetReturned(q, protocol) == IF protocol = "https" THEN q.https ELSE q.http

\* C11: the attempts of a Get come one after the other; an attempt is
\* followed by another only if it failed; the Get returns the response of
\* the first attempt that succeeds; if every attempt fails it has made
\* exactly timeoutRetries + 1 attempts and returns an error that reports
\* that count and wraps the error of the last attempt.
C11_GetAttempts ==
    \A q \in LiveProbes, protocol \in Protocols :
        LET reqs == RequestsOf(q, protocol)
            resp == GetReturned(q, protocol)
            retries == config.TimeoutRetries
        IN  /\ Len(reqs) <= retries + 1
            /\ \A k \in 1..(Len(reqs) - 1) : ~reqs[k].ok
            /\ resp = <<>> => \A k \in 1..Len(reqs) : ~reqs[k].ok
            /\ resp # <<>> =>
                  /\ Len(reqs) >= 1
                  /\ IF reqs[Len(reqs)].ok
                     THEN /\ resp[1].Error = <<>>
                          /\ resp[1].StatusCode = reqs[Len(reqs)].StatusCode
                          /\ resp[1].Body = reqs[Len(reqs)].Body
                     ELSE /\ Len(reqs) = retries + 1
                          /\ resp[1].Error =
                                <<"request failed after", ToString(retries + 1),
                                  "attempts:">> \o reqs[Len(reqs)].err

\* C11 witness: with two retries, an HTTPS Get whose three attempts failed,
\* the first and the last for different causes, and that returned the
\* error of the last.
C11_Witness ==
    \E q \in FinishedProbes :
        LET s == RequestsOf(q, "https")
        IN  /\ config.TimeoutRetries = 2
            /\ Len(s) = 3 /\ s[1].err # s[3].err
            /\ q.https[1].Error =
                  <<"request failed after", "3", "attempts:">> \o s[3].err

\* the sleeps and the doRequest calls of the Get of q for protocol, in order
EventsOf(q, protocol) ==
    LET Is(e) == e.protocol = protocol
    IN  SelectSeq(q.trace, Is)

\* how many of the first j entries of t are doRequest calls
RequestsBefore(t, j) ==
    Cardinality({m \in 1..(j - 1) : t[m].kind = "request"})

\* the seconds slept in t
RECURSIVE SecondsSlept(_)
SecondsSlept(t) ==
    IF t = <<>> THEN 0 ELSE Head(t).seconds + SecondsSlept(Tail(t))

\* C12: before attempt k (0-based) of a fetch the fetcher sleeps exactly k
\* seconds, once: nothing before the first attempt, 1 s before the second,
\* 2 s before the third; every sleep is followed by an attempt, so none
\* follows the last failed attempt; a fetch that exhausts timeoutRetries = r
\* has slept r(r+1)/2 seconds in all.
C12_LinearBackoff ==
    \A q \in LiveProbes, protocol \in Protocols :
        LET t == EventsOf(q, protocol)
            resp == GetReturned(q, protocol)
            r == config.TimeoutRetries
        IN  /\ \A j \in 1..Len(t) :
                  IF t[j].kind = "request"
                  THEN IF RequestsBefore(t, j) = 0
                       THEN j = 1
                       ELSE /\ t[j - 1].kind = "sleep"
                            /\ t[j - 1].seconds = RequestsBefore(t, j)
                            /\ t[j - 2].kind = "request"
                  ELSE j < Len(t) /\ t[j + 1].kind = "request"
            /\ (resp # <<>> /\ resp[1].Error # <<>>) =>
                  /\ t[Len(t)].kind = "request"
                  /\ 2 * SecondsSlept(t) = r * (r + 1)

\* C12 witness: with two retries, an HTTPS fetch that ran out of attempts:
\* attempt, 1 s, attempt, 2 s, attempt.
C12_Witness ==
    \E q \in FinishedProbes :
        LET t == EventsOf(q, "https")
        IN  /\ config.TimeoutRetries = 2
            /\ q.https[1].Error # <<>>
            /\ [j \in 1..Len(t) |-> <<t[j].kind, t[j].seconds>>] =
                  <<<<"request", 0>>, <<"sleep", 1>>, <<"request", 0>>,
                    <<"sleep", 2>>, <<"request", 0>>>>
            /\ SecondsSlept(t) = 3

RedirectedRequests(q) ==
    {q.trace[j] : j \in {m \in DOMAIN q.trace :
                           q.trace[m].kind = "request" /\ q.trace[m].hops > 0}}

\* C14 as claimed: a chain of up to 10 redirects, 10 included, is followed to
\* its final response; only a chain of more than 10 fails the attempt, with
\* the redirect-limit error.
C14_TenRedirectsFollowed ==
    \A q \in LiveProbes :
        \A e \in RedirectedRequests(q) :
            IF e.hops <= MaxRedirects
            THEN e.ok /\ e.followed = e.hops /\ e.StatusCode = 200
            ELSE ~e.ok /\ Contains(e.err, <<"too many redirects">>)

\* what the fetcher does: a chain of up to 9 redirects is followed to its
\* final response, a chain of 10 or more fails the attempt at its tenth
\* redirect, 9 having been followed.
C14_NineRedirectsFollowed ==
    \A q \in LiveProbes :
        \A e \in RedirectedRequests(q) :
            IF e.hops < MaxRedirects
            THEN e.ok /\ e.followed = e.hops /\ e.StatusCode = 200
            ELSE /\ ~e.ok /\ Contains(e.err, <<"too many redirects">>)
                 /\ e.followed = MaxRedirects - 1

\* C14 witness: two attempts, one answered with a chain of 9 redirects and
\* one with a chain of exactly 10: the first got its final response, the
\* second failed with the redirect-limit error.
C14_Witness ==
    \E q \in LiveProbes :
        \E e, f \in RedirectedRequests(q) :
            /\ e.hops = MaxRedirects - 1 /\ e.ok
            /\ f.hops = MaxRedirects /\ ~f.ok
            /\ Contains(f.err, <<"too many redirects">>)

\* ------------------------------------------------------------ body properties

\* readBody has returned for the body on the connection
BodyRead == wire # <<>> /\ fetched # <<>>

\* the body on the connection starts with the gzip magic number and cannot
\* be decompressed
Undecompressable ==
    /\ wire # <<>>
    /\ wire[1].kind \in {"gzip header", "gzip check"}

\* the first 8192 bytes of content, the separator, its last 8192 bytes
HeadAndTail(content) ==
    SubSeq(content, 1, HalfLimit) \o Separator
        \o SubSeq(content, Len(content) - HalfLimit + 1, Len(content))

\* C15: for every response body whose decompressed length (its length, when
\* it is not compressed) is at most 16384 bytes, the body the fetcher
\* returns is those bytes exactly.
C15_SmallBodyVerbatim ==
    BodyRead =>
        (Len(wire[1].content) <= BodyLimit => fetched[1] = wire[1].content)

\* C15 witness: a gzipped body that decompresses to exactly 16384 bytes,
\* returned decompressed and whole.
C15_Witness ==
    /\ BodyRead
    /\ wire[1].kind = "gzip"
    /\ Len(wire[1].content) = BodyLimit
    /\ wire[1].data # wire[1].content
    /\ fetched[1] = wire[1].content

\* C16 as claimed: for every response body of length L > 16384 (decompressed,
\* when it can be), the body the fetcher returns is its first 8192 bytes,
\* the separator, its last 8192 bytes, of the same length for every L.
C16_LargeBodyTruncated ==
    BodyRead =>
        (Len(wire[1].content) > BodyLimit =>
            /\ fetched[1] = HeadAndTail(wire[1].content)
            /\ Len(fetched[1]) = 2 * HalfLimit + Len(Separator))

\* what the fetcher does: the truncation of C16 for every body of length
\* L > 16384 that does not start with the gzip magic number or that
\* decompresses.
C16_LargeBodyTruncatedUnlessUndecompressable ==
    (BodyRead /\ ~Undecompressable) =>
        (Len(wire[1].content) > BodyLimit =>
            /\ fetched[1] = HeadAndTail(wire[1].content)
            /\ Len(fetched[1]) = 2 * HalfLimit + Len(Separator))

\* C16 witness: a body of more than 16384 bytes that ends with a wrong gzip
\* check value is returned whole, longer than a truncated body.
C16_Witness ==
    /\ BodyRead
    /\ wire[1].kind = "gzip check"
    /\ Len(wire[1].data) > BodyLimit
    /\ fetched[1] = wire[1].data
    /\ Len(fetched[1]) > 2 * HalfLimit + Len(Separator)

\* C17 as claimed: a body that starts with the gzip magic number and cannot
\* be decompressed is returned under the size rule of any other body: as it
\* is if at most 16384 bytes long, else head, separator and tail.
C17_UndecompressableUnderSizeRule ==
    (BodyRead /\ Undecompressable) =>
        fetched[1] = IF Len(wire[1].data) <= BodyLimit
                     THEN wire[1].data
                     ELSE HeadAndTail(wire[1].data)

\* what the fetcher does: such a body is returned as it is, whatever its
\* length.
C17_UndecompressableVerbatim ==
    (BodyRead /\ Undecompressable) => fetched[1] = wire[1].data

\* C17 witness: a body of more than twice 16384 bytes with the gzip magic
\* number and an unknown compression method is returned whole.
C17_Witness ==
    /\ BodyRead
    /\ wire[1].kind = "gzip header"
    /\ Len(wire[1].data) > 2 * BodyLimit
    /\ fetched[1] = wire[1].data

\* ------------------------------------------------------------ matcher properties

\* the bodies the fetcher can hand to the matcher
Bodies == {o.Body : o \in {p \in DoRequestOutcomes(network, <<>>) : p.ok}}

\* the catalog positions of the regex fingerprints that do not compile
BadPositions ==
    {k \in DOMAIN fingerprints :
        fingerprints[k].Regex /\ ~RegexCompiles(fingerprints[k].Pattern)}

\* C18: whenever some regex fingerprint of the catalog does not compile,
\* wherever it stands and whatever the fingerprints before and after it
\* match, Match returns an error and no matches, and a probe that ran the
\* matcher has no evidence.
C18_MatchFailFast ==
    /\ \A body \in Bodies :
        BadPositions # {} =>
            /\ Match(fingerprints, body).err # <<>>
            /\ Match(fingerprints, body).matches = <<>>
    /\ \A q \in FinishedProbes :
        (BadPositions # {} /\ q.matched # <<>>) =>
            /\ q.result.Evidence = <<>>
            /\ ~q.result.Vulnerable
            /\ q.result.Error =
                  <<"fingerprint matching error:">>
                      \o Match(fingerprints, SelectedResponse(q.result).Body).err

\* C18 witness: the first fingerprint of the catalog does not compile, the
\* second matches the body the matcher was run on: no evidence.
C18_Witness ==
    \E q \in FinishedProbes :
        /\ Len(fingerprints) = 2
        /\ BadPositions = {1}
        /\ q.matched # <<>>
        /\ FingerprintMatch(fingerprints[2], SelectedResponse(q.result).Body).matched
        /\ q.result.Evidence = <<>>

\* C19: a vulnerable result has one evidence entry per catalog fingerprint
\* that matches the selected body, duplicates included, in catalog order:
\* service, pattern and notes of the fingerprint and the snippet of its
\* pattern in the selected body.
C19_EvidencePerMatchInOrder ==
    \A r \in ProducedResults :
        r.Status = "vulnerable" =>
            LET body == SelectedResponse(r).Body
                hits == MatchingFingerprints(body)
            IN  r.Evidence =
                    [j \in 1..Len(hits) |->
                        [Service |-> hits[j].Service,
                         Pattern |-> hits[j].Pattern,
                         Notes   |-> hits[j].Notes,
                         Snippet |-> extractSnippet(body, hits[j].Pattern)]]

\* C19 witness: the catalog holds the same matching fingerprint twice and
\* the result has two evidence entries, the same.
C19_Witness ==
    \E r \in ProducedResults :
        /\ Len(fingerprints) = 2
        /\ fingerprints[1] = fingerprints[2]
        /\ Len(r.Evidence) = 2
        /\ r.Evidence[1] = r.Evidence[2]
        /\ r.Evidence[1].Service = fingerprints[1].Service

\* pattern, lowercased, is a substring of s, lowercased
LowercasedSubstring(pattern, s) ==
    \E at \in 0..(Len(s) - Len(pattern)) :
        \A j \in 1..Len(pattern) : LowerChar(s[at + j]) = LowerChar(pattern[j])

\* C20: a fingerprint that is not a regex matches a body iff its lowercased
\* pattern is a substring of the lowercased body; a regex fingerprint that
\* compiles matches iff the pattern matches the body as it is; and a
\* catalog of one such fingerprint makes a result vulnerable iff that holds
\* of the selected body.
C20_SubstringFoldedRegexRaw ==
    /\ \A k \in DOMAIN fingerprints, body \in Bodies :
        LET f == fingerprints[k]
            m == FingerprintMatch(f, body)
        IN  /\ ~f.Regex =>
                  /\ m.err = <<>>
                  /\ m.matched <=> LowercasedSubstring(f.Pattern, body)
            /\ (f.Regex /\ RegexCompiles(f.Pattern)) =>
                  /\ m.err = <<>>
                  /\ m.matched <=> \E at \in 0..Len(body) :
                                      RegexMatchesAt(f.Pattern, body, at)
    /\ \A r \in ProducedResults :
        (Len(fingerprints) = 1 /\ BadPositions = {}
            /\ (Usable(r.HTTPSResponse) \/ Usable(r.HTTPResponse))) =>
            (r.Status = "vulnerable" <=>
                IF fingerprints[1].Regex
                THEN \E at \in 0..Len(SelectedResponse(r).Body) :
                        RegexMatchesAt(fingerprints[1].Pattern,
                                       SelectedResponse(r).Body, at)
                ELSE LowercasedSubstring(fingerprints[1].Pattern,
                                         SelectedResponse(r).Body))

\* C20 witness: the only fingerprint is a substring one whose pattern is in
\* the selected body in another case only: the result is vulnerable.
C20_Witness ==
    \E r \in ProducedResults :
        /\ Len(fingerprints) = 1
        /\ ~fingerprints[1].Regex
        /\ Usable(r.HTTPSResponse)
        /\ ~Contains(r.HTTPSResponse[1].Body, fingerprints[1].Pattern)
        /\ Contains(ToLower(r.HTTPSResponse[1].Body), ToLower(fingerprints[1].Pattern))
        /\ r.Status = "vulnerable"

\* the scan runs in rate-limited mode
RateMode == config.Rate > 0

\* the slots below index n, in index order
Placed(n) == [k \in 1..n |-> results[k - 1]]

\* a step that enters scanSubdomain
ProbeStarts == probed' # probed

\* a step that receives the tick buffered in the ticker's channel
TickReceived ==
    /\ rateLimiter # <<>>
    /\ rateLimiter[1].C = 1
    /\ rateLimiter'[1].C = 0

\* C21: in rate-limited mode the probes run one at a time in input order.
\* While the loop is at index i, the indexes below i have been probed once and
\* their results are in their slots (and, in real-time mode, printed in that
\* order), index i is being probed or waits for its tick, no later index has
\* been probed or written, and there is no worker: the only probe in flight
\* is the loop's. Every step that enters a probe, the first included, is the
\* step that receives a tick.
C21_RateLimitedSequential ==
    /\ [](RateMode =>
            /\ workers = EmptyBag
            /\ LiveProbes \subseteq {cur}
            /\ (cur.stage # "none") <=> (pc = "ratelimit_probe")
            /\ \A k \in DOMAIN subdomains :
                /\ probed[k] = IF k < i \/ (k = i /\ pc = "ratelimit_probe")
                               THEN 1 ELSE 0
                /\ written[k] = IF pc # "new" /\ k < i THEN 1 ELSE 0
                /\ (pc # "new" /\ k < i) => produced[k] = <<results[k]>>
            /\ (pc # "new" /\ realtime) => printed = Placed(i)
            /\ pc = "done" => i = N)
    /\ [][(RateMode /\ ProbeStarts) =>
            /\ pc = "ratelimit"
            /\ TickReceived
            /\ cur'.sub = subdomains[i]]_vars

\* C21 witness: a real-time rate-limited scan of two subdomains waits for the
\* tick of the second probe, the first result placed and printed.
C21_Witness ==
    /\ RateMode /\ realtime
    /\ pc = "ratelimit"
    /\ N >= 2 /\ i = 1
    /\ rateLimiter[1].C = 0
    /\ written[0] = 1
    /\ printed = <<results[0]>>
    /\ probed[1] = 0

\* ------------------------------------------------------------ the clock

\* one step of the clock, and the last instant a timed run is followed to
Quantum == Second \div Resolution

Horizon == MaxQuanta * Quantum

\* the ticker of time.NewTicker is running
Ticking == rateLimiter # <<>> /\ rateLimiter[1].running

\* the ticker's instant has come and its timer has not fired yet. An instant
\* of the clock stands for the quantum of time that begins there, and the
\* timer fires at its beginning: what the scan does in that quantum comes
\* after the tick
TimerDue == Ticking /\ clock.now = clock.next

\* what no step of a timed scan changes but the clock
given == <<network, config, fingerprints, subdomains, wire, fetched, listFile,
           args, outputFile, fingerprintsFile, disk, exitErr, snippetRun>>

\* time goes by, in the caller before Scan, in a fetch, or waiting for a
\* tick: up to the instant the ticker fires next and no further, until Scan
\* has returned
TimePasses ==
    /\ panicked = ""
    /\ pc # "done"
    /\ clock.now <= Horizon - Quantum
    /\ Ticking => clock.now < clock.next
    /\ clock' = [clock EXCEPT !.now =
                    IF Ticking /\ clock.next < clock.now + Quantum
                    THEN clock.next
                    ELSE clock.now + Quantum]
    /\ UNCHANGED <<given, rateLimiter, realtime, pc, i, results, cur, pool,
                   printed, probed, produced, written, panicked>>

\* the runtime timer of the ticker fires on its instant: the tick is buffered
\* in C, or dropped when one is waiting there, and the next instant is one
\* interval on
TimedTick ==
    /\ panicked = ""
    /\ pc # "done"
    /\ TimerDue
    /\ rateLimiter' = <<[rateLimiter[1] EXCEPT !.C = 1]>>
    /\ clock' = [clock EXCEPT !.next = @ + Interval(config.Rate)]
    /\ UNCHANGED <<given, realtime, pc, i, results, cur, pool, printed,
                   probed, produced, written, panicked>>

\* Scan / ScanWithRealtimeOutput is called at clock.now
TimedEnter(rt) ==
    /\ panicked = ""
    /\ ~TimerDue
    /\ pc = "new"
    /\ realtime' = rt
    /\ results' = [k \in DOMAIN subdomains |-> ZeroResult]
    /\ i' = 0
    /\ pc' = IF config.Rate > 0 THEN "ratelimit" ELSE "spawn"
    /\ clock' = [clock EXCEPT !.start = clock.now]
    /\ UNCHANGED <<given, rateLimiter, cur, pool, printed, probed, produced,
                   written, panicked>>

TimedScan == TimedEnter(FALSE)

TimedScanWithRealtimeOutput == TimedEnter(TRUE)

\* <-s.rateLimiter.C returns, scanSubdomain is entered
TimedWait ==
    /\ panicked = ""
    /\ ~TimerDue
    /\ pc = "ratelimit"
    /\ i < N
    /\ rateLimiter # <<>> => rateLimiter[1].C > 0
    /\ rateLimiter' = IF rateLimiter # <<>>
                      THEN <<[rateLimiter[1] EXCEPT !.C = 0]>>
                      ELSE rateLimiter
    /\ cur' = ProbeBegin(subdomains[i])
    /\ probed' = [probed EXCEPT ![i] = @ + 1]
    /\ pc' = "ratelimit_probe"
    /\ UNCHANGED <<given, clock, realtime, i, results, pool, printed,
                   produced, written, panicked>>

\* scanSubdomain sends a request at clock.now and has its answer
TimedProbe ==
    /\ panicked = ""
    /\ ~TimerDue
    /\ pc = "ratelimit_probe"
    /\ cur.stage \in {"https", "http"}
    /\ \E o \in DoRequestOutcomes(network, URL(cur.stage, cur.sub)) :
           /\ cur' = Probe(i, cur, o)
           /\ produced' = Returned(i, cur')
    /\ clock' = [clock EXCEPT !.sent = Append(@, clock.now)]
    /\ UNCHANGED <<given, rateLimiter, realtime, pc, i, results, pool,
                   printed, probed, written, panicked>>

\* results[i] = s.scanSubdomain(subdomain), and the print of the real-time loop
TimedStore ==
    /\ panicked = ""
    /\ ~TimerDue
    /\ pc = "ratelimit_probe"
    /\ cur.stage = "done"
    /\ Place(i, cur.result)
    /\ cur' = NoProbe
    /\ i' = i + 1
    /\ pc' = "ratelimit"
    /\ UNCHANGED <<given, clock, rateLimiter, realtime, pool, probed,
                   produced, panicked>>

\* the loop and Scan return at clock.now
TimedReturn ==
    /\ panicked = ""
    /\ ~TimerDue
    /\ pc = "ratelimit"
    /\ i >= N
    /\ pc' = "done"
    /\ clock' = [clock EXCEPT !.end = clock.now]
    /\ UNCHANGED <<given, rateLimiter, realtime, i, results, cur, pool,
                   printed, probed, produced, written, panicked>>

\* --rate values of the timed runs: 2 paces at 500ms, 4 at 250ms
PaceRates == {2, 4}

\* timed runs: a rate-limited scanner, lists of every length from 1, the
\* default catalog, no retry (so that no fetch sleeps), a network on which
\* every request is answered or every request fails
PaceInit ==
    \E rate \in PaceRates, n \in 1..MaxSubs, answer \in SmallNetwork :
        /\ New({answer}, [Rate |-> rate, TimeoutRetries |-> 0],
               DefaultCatalog, [k \in 0..(n - 1) |-> "a.test"])
        /\ wire = <<>>
        /\ listFile = <<>>
        /\ Direct

PaceNext ==
    \/ TimedScan
    \/ TimedScanWithRealtimeOutput
    \/ TimePasses
    \/ TimedTick
    \/ TimedWait
    \/ TimedProbe
    \/ TimedStore
    \/ TimedReturn

\* the timed runs
PaceSpec == PaceInit /\ [][PaceNext]_vars

\* the time Scan took, once it has returned
Elapsed == clock.end - clock.start

\* the requests sent in the second that begins with request k
SentInSecondFrom(k) ==
    {j \in DOMAIN clock.sent :
        /\ j >= k
        /\ clock.sent[j] - clock.sent[k] < Second}

\* C22: a rate-limited Scan of N subdomains takes at least (N - 1) intervals
\* from its call to its return, whenever it is called after New.
C22_ElapsedAtLeast ==
    (RateMode /\ pc = "done") =>
        Elapsed >= (N - 1) * Interval(config.Rate)

\* C22, as the code has it: the ticker runs from New on and keeps one tick
\* for a late receiver, so the bound holds for a Scan called before the
\* ticker has fired for the first time, and a Scan called later can be one
\* interval short of it and no more: it takes longer than (N - 2) intervals.
C22_ElapsedFromFirstTick ==
    (RateMode /\ pc = "done") =>
        /\ clock.start < Interval(config.Rate) =>
              Elapsed >= (N - 1) * Interval(config.Rate)
        /\ N >= 2 => Elapsed > (N - 2) * Interval(config.Rate)

\* C22 witness: a Scan of two subdomains called after the first tick was
\* buffered has returned less than one interval later.
C22_Witness ==
    /\ RateMode /\ pc = "done"
    /\ N = 2
    /\ clock.start >= Interval(config.Rate)
    /\ Elapsed < Interval(config.Rate)
    /\ Elapsed > 0

\* C23: with rate r > 0, no second holds more than r of the requests the
\* scanner sends, both fetches of every probe counted.
C23_RequestsPerSecond ==
    RateMode =>
        \A k \in DOMAIN clock.sent :
            Cardinality(SentInSecondFrom(k)) <= config.Rate

\* C23 witness: with nothing but the two fetches of each probe, one second
\* holds twice as many requests as the rate.
C23_Witness ==
    /\ RateMode
    /\ \E k \in DOMAIN clock.sent :
        Cardinality(SentInSecondFrom(k)) >= 2 * config.Rate

\* ------------------------------------------------------------ the modes

\* --rate values of the mode runs: negative, the default 0, 2, and one above
\* the nanoseconds of a second (the flag is an int and is not validated)
ModeRates == {-1, 0, 2, 2 * Second}

\* the configurations of the mode runs
Configurations == [Rate : ModeRates, TimeoutRetries : RetryValues]

\* mode runs: every configuration, the empty list and a list of one, the
\* default catalog
ModeInit ==
    \E cfg \in Configurations, n \in 0..1 :
        /\ New(SmallNetwork, cfg,
               DefaultCatalog, [k \in 0..(n - 1) |-> "a.test"])
        /\ wire = <<>>
        /\ listFile = <<>>
        /\ Direct

\* the mode runs
ModeSpec == ModeInit /\ [][Next]_vars

\* where the caller of Scan is while the rate-limited loop runs, and while
\* the worker pool runs
RateLimitPlaces == {"ratelimit", "ratelimit_probe"}

PoolPlaces == {"spawn", "send", "watch", "collect"}

\* nothing of the worker pool has been started or used
NoPool ==
    /\ workers = EmptyBag
    /\ wg = 0
    /\ watcher = "none"
    /\ subdomainChan = <<>> /\ ~subdomainClosed
    /\ resultChan = <<>> /\ resultCloses = 0

\* a step that starts a goroutine of the pool
WorkerStarts == BagCardinality(workers') > BagCardinality(workers)

\* C24: a call of Scan or ScanWithRealtimeOutput runs in one mode: the
\* rate-limited loop when the rate is > 0, the worker pool when it is 0 or
\* negative. With a rate > 0 the caller is never in the pool's code, no worker
\* or watcher exists and the channels are untouched; otherwise the caller is
\* never in the rate-limited loop, there is no ticker and no step receives a
\* tick, and every probe is a worker's.
C24_OneModePerScan ==
    /\ [](RateMode => (pc \notin PoolPlaces /\ NoPool))
    /\ [](~RateMode =>
            /\ pc \notin RateLimitPlaces
            /\ rateLimiter = <<>>
            /\ cur = NoProbe)
    /\ [][WorkerStarts => ~RateMode]_vars
    /\ [][TickReceived => RateMode]_vars
    /\ [][(pc = "new" /\ pc' # "new") =>
            pc' = IF config.Rate > 0 THEN "ratelimit" ELSE "spawn"]_vars

\* C24 witness: a scan with a negative rate has returned from the worker
\* pool, its one subdomain probed and placed.
C24_Witness ==
    /\ config.Rate < 0
    /\ pc = "done"
    /\ N = 1
    /\ written[0] = 1
    /\ resultCloses = 1

\* C28: no operation of the engine ends in a panic.
C28_NoPanic == panicked = ""

\* C28, as the code has it: the one panic is that of time.NewTicker in
\* scanner.New, for a rate above the nanoseconds of a second, whose interval
\* comes out as 0; no scan is run then.
C28_PanicOnlyInNew ==
    panicked # "" =>
        /\ config.Rate > Second
        /\ Interval(config.Rate) = 0
        /\ pc = "new"
        /\ rateLimiter = <<>>

\* C28 witness: scanner.New has panicked for a rate > 0.
C28_Witness ==
    /\ config.Rate > 0
    /\ panicked = "non-positive interval for NewTicker"

\* ------------------------------------------------------------ the scan command

\* strings.Split(s, sep) for a separator of one character: the pieces between
\* the separators, one more than there are separators
RECURSIVE SplitFrom(_, _, _, _)
SplitFrom(s, sep, k, piece) ==
    IF k > Len(s)
    THEN <<piece>>
    ELSE IF s[k] = sep
    THEN <<piece>> \o SplitFrom(s, sep, k + 1, <<>>)
    ELSE SplitFrom(s, sep, k + 1, Append(piece, s[k]))

Split(s, sep) == SplitFrom(s, sep, 1, <<>>)

\* strings.TrimSpace: the white space at both ends removed
RECURSIVE TrimLeft(_)
TrimLeft(s) ==
    IF s # <<>> /\ Head(s) = " " THEN TrimLeft(Tail(s)) ELSE s

RECURSIVE TrimRight(_)
TrimRight(s) ==
    IF s # <<>> /\ s[Len(s)] = " "
    THEN TrimRight(SubSeq(s, 1, Len(s) - 1))
    ELSE s

TrimSpace(s) == TrimRight(TrimLeft(s))

\* strings.HasPrefix
HasPrefix(s, prefix) ==
    /\ Len(s) >= Len(prefix)
    /\ SubSeq(s, 1, Len(prefix)) = prefix

\* the loop of loadSubdomainsFromFile over lines[k..]
RECURSIVE LoadFrom(_, _, _)
LoadFrom(lines, k, loaded) ==
    IF k > Len(lines)
    THEN loaded
    ELSE LET line == TrimSpace(lines[k])
         IN  IF line # <<>> /\ ~HasPrefix(line, <<"#">>)
             THEN LoadFrom(lines, k + 1, Append(loaded, line))
             ELSE LoadFrom(lines, k + 1, loaded)

\* loadSubdomainsFromFile, from the bytes os.ReadFile returned on
loadSubdomainsFromFile(data) == LoadFrom(Split(data, "\n"), 1, <<>>)

\* a Go slice of the elements of a sequence
ToSlice(seq) == [k \in 0..(Len(seq) - 1) |-> seq[k + 1]]

\* what a list file is made of: line ends, blanks, the comment sign and a
\* run of other characters
FileTokens == {"\n", " ", "#", "a.test"}

\* the list files: every text of up to MaxFile tokens
ListFiles == UNION {[1..n -> FileTokens] : n \in 0..MaxFile}

\* runs of the scan command from scanner.New on: the list is args[0] (no -l
\* flag) or what loadSubdomainsFromFile made of a list file that could be
\* read; every rate, the default catalog, no retry, a network that refuses
\* every connection
RunInit ==
    \E rate \in RateValues, file \in {<<>>} \cup {<<data>> : data \in ListFiles} :
        /\ New({answer \in SmallNetwork : ~answer.ok},
               [Rate |-> rate, TimeoutRetries |-> 0], DefaultCatalog,
               IF file = <<>>
               THEN ToSlice(<<<<"a.test">>>>)
               ELSE ToSlice(loadSubdomainsFromFile(file[1])))
        /\ wire = <<>>
        /\ listFile = file
        /\ args = IF file = <<>> THEN <<<<"a.test">>>> ELSE <<>>
        /\ outputFile = ""
        /\ fingerprintsFile = <<>>
        /\ disk = <<>>
        /\ exitErr = <<>>
        /\ snippetRun = <<>>

\* what json.Encoder.Encode writes for a types.Result, by JSON key; a key
\* marked omitempty holds the empty value when the encoder leaves it out
EncodeResult(r) ==
    [subdomain |-> r.Subdomain, vulnerable |-> r.Vulnerable,
     status |-> r.Status, evidence |-> r.Evidence, error |-> r.Error,
     http_response |-> r.HTTPResponse, https_response |-> r.HTTPSResponse]

\* what Encode writes for a slice: null for a nil slice, else an array of
\* its elements in order
EncodeSlice(isNil, elems) ==
    [null |-> isNil,
     array |-> IF isNil THEN <<>>
               ELSE [k \in 1..Len(elems) |-> EncodeResult(elems[k])]]

\* FilterFrom with every result kept
RECURSIVE FilterFromKeepAll(_, _, _)
FilterFromKeepAll(rs, k, acc) ==
    IF k >= Cardinality(DOMAIN rs)
    THEN acc
    ELSE FilterFromKeepAll(rs, k + 1, Append(acc, rs[k]))

\* the loop of outputToFile over results[k..]: the vulnerable results are
\* appended to vulnerableResults
RECURSIVE FilterFrom(_, _, _)
FilterFrom(rs, k, acc) ==
    IF k >= Cardinality(DOMAIN rs)
    THEN acc
    ELSE FilterFrom(rs, k + 1,
             IF rs[k].Vulnerable /\ rs[k].Status = "vulnerable"
             THEN Append(acc, rs[k])
             ELSE acc)

\* outputToFile: what a file that could be created holds; vulnerableResults
\* starts as make([]types.Result, 0), which is not nil
outputToFile(rs) == EncodeSlice(FALSE, FilterFrom(rs, 0, <<>>))

\* runScan after ScanWithRealtimeOutput has returned: the results are written
\* to the output file if one was asked for, and runScan returns nil or the
\* error of the write; the scanner is not used again
RunScanReturn ==
    /\ panicked = ""
    /\ pc = "done"
    /\ pc' = "exit"
    /\ IF outputFile = ""
       THEN disk' = disk /\ exitErr' = <<>>
       ELSE \E created \in BOOLEAN :
               IF created
               THEN /\ disk' = <<outputToFile(results)>>
                    /\ exitErr' = <<>>
               ELSE /\ disk' = disk
                    /\ exitErr' = <<"failed to write output file:",
                                    "permission denied">>
    /\ UNCHANGED <<network, config, fingerprints, subdomains, wire, fetched,
                   clock, listFile, args, outputFile, fingerprintsFile,
                   snippetRun, rateLimiter, realtime, i, results, cur, pool,
                   printed, probed, produced, written, panicked>>

\* runScan calls ScanWithRealtimeOutput only
RunNext ==
    \/ ScanWithRealtimeOutput
    \/ Tick
    \/ RateLimitWait
    \/ RateLimitProbe
    \/ RateLimitStore
    \/ RateLimitReturn
    \/ StartWorker
    \/ SendWork
    \/ CloseWork
    \/ StartWatcher
    \/ WatcherClose
    \/ WorkerReceive
    \/ WorkerProbe
    \/ WorkerSend
    \/ WorkerExit
    \/ Collect
    \/ CollectReturn
    \/ RunScanReturn

\* the runs of the scan command
RunSpec == RunInit /\ [][RunNext]_vars

\* the engine has been invoked: Scan or ScanWithRealtimeOutput was called
Invoked == pc # "new"

\* the positions of a text where a line's first character that is not a
\* blank stands
LineStarts(data) ==
    {p \in 1..Len(data) :
        /\ data[p] \notin {" ", "\n"}
        /\ \E q \in 0..(p - 1) :
            /\ q = 0 \/ data[q] = "\n"
            /\ \A r \in (q + 1)..(p - 1) : data[r] = " "}

\* C25: once the run of the scan command has finished, the ticker of its
\* rate-limited scanner is stopped.
C25_TickerStoppedAtExit ==
    pc = "exit" => (rateLimiter = <<>> \/ ~rateLimiter[1].running)

\* C25, as the code has it: nothing in runScan stops the ticker; the ticker
\* New started is running at every point of the run and after it.
C25_TickerNeverStopped ==
    (RateMode /\ panicked = "") =>
        (rateLimiter # <<>> /\ rateLimiter[1].running)

\* C25 witness: the run of a rate-limited scan has finished and its ticker
\* is running.
C25_Witness ==
    /\ pc = "exit"
    /\ RateMode
    /\ N >= 1
    /\ rateLimiter[1].running

\* C29: whenever the scan command has invoked the engine, the list of
\* subdomains is not empty.
C29_NeverEmptyList == Invoked => N >= 1

\* C29, as the code has it: the engine is invoked with one subdomain per
\* line of the file that is neither blank nor a comment, none if there is no
\* such line, and with the one argument when there is no list file.
C29_ListAsLoaded ==
    Invoked =>
        IF listFile = <<>>
        THEN N = 1
        ELSE N = Cardinality({p \in LineStarts(listFile[1]) :
                                 listFile[1][p] # "#"})

\* C29 witness: ScanWithRealtimeOutput has returned for the empty list loaded
\* from a file of a blank line and a comment line.
C29_Witness ==
    /\ pc = "done"
    /\ N = 0
    /\ listFile = << <<" ", "\n", "#">> >>
    /\ results = <<>>

\* how many worker goroutines are alive
Workers == BagCardinality(workers)

\* how many of them are inside scanSubdomain
InFlight ==
    LET busy == {w \in BagToSet(workers) : w.pc = "probe"}
    IN  BagCardinality([w \in busy |-> CopiesIn(w, workers)])

\* C26: in worker-pool mode exactly maxWorkers = 20 workers are started,
\* whatever the length of the list, the empty list included: the workers are
\* started one by one by the caller before any index is sent, there are 20 of
\* them when the starting loop is left and until the work queue is closed,
\* and none is started later. Every probe in flight is inside one of the live
\* workers, so at most 20 are in flight.
C26_TwentyWorkers ==
    /\ [](PoolMode =>
            /\ InFlight <= Workers
            /\ Workers <= maxWorkers
            /\ wg = Workers
            /\ cur = NoProbe
            /\ pc = "new" => Workers = 0
            /\ pc = "spawn" => Workers = i
            /\ (pc \in {"send", "watch", "collect", "done"} /\ ~subdomainClosed)
                  => Workers = maxWorkers)
    /\ [][WorkerStarts =>
            /\ pc = "spawn"
            /\ BagCardinality(workers') = Workers + 1]_vars
    /\ [][(pc = "spawn" /\ pc' # "spawn") =>
            BagCardinality(workers') = maxWorkers]_vars

\* C26 witness: a pool scan of two subdomains has both probes in flight, in
\* two of its 20 workers.
C26_Witness ==
    /\ PoolMode
    /\ N = 2
    /\ InFlight = 2
    /\ Workers = maxWorkers

\* the indexes whose slot has been assigned
WrittenSlots == {k \in DOMAIN written : written[k] > 0}

\* a step that calls printResult
Emits == printed' # printed

\* C27: in ScanWithRealtimeOutput, in both modes, there is one emission per
\* slot written, each of the result that is in a written slot, and all N of
\* them when the call has returned, none after; Scan emits nothing. The step
\* that emits is the one that writes the slot, of the result just written,
\* one result per step: in the rate-limited loop the caller with the result of
\* index i, in the worker pool the collector with the pair at the head of the
\* result channel, so in the order of collection.
C27_EmittedOnceWhenPlaced ==
    /\ [](IF realtime
          THEN /\ Len(printed) = Cardinality(WrittenSlots)
               /\ \A k \in DOMAIN written : written[k] <= 1
               /\ \A j \in 1..Len(printed) :
                    \E k \in WrittenSlots : results[k] = printed[j]
               /\ pc = "done" => Len(printed) = N
          ELSE printed = <<>>)
    /\ [][Emits =>
            /\ realtime /\ pc # "done"
            /\ \E k \in DOMAIN written :
                /\ written[k] = 0 /\ written'[k] = 1
                /\ printed' = Append(printed, results'[k])
                /\ PoolMode =>
                      /\ pc = "collect"
                      /\ resultChan # <<>>
                      /\ Head(resultChan) = [index |-> k, result |-> results'[k]]
                /\ RateMode => (pc = "ratelimit_probe" /\ k = i)]_vars

\* C27 witness: the collector of a real-time pool scan of two subdomains has
\* written and emitted the result of the second, the first not yet collected.
C27_Witness ==
    /\ realtime /\ PoolMode
    /\ pc = "collect"
    /\ N = 2
    /\ written[1] = 1 /\ written[0] = 0
    /\ printed = <<results[1]>>

\* the number of workers the starting loop of scanWithWorkers[Realtime]
\* starts under a configuration: its bound is the constant maxWorkers
PoolWidth(cfg) == maxWorkers

\* a pool scan has started its workers and closed no channel yet
PoolStarted ==
    /\ PoolMode
    /\ pc \in {"send", "watch", "collect"}
    /\ ~subdomainClosed

\* C30: the number of workers of the pool is taken from the configuration:
\* the width a scan has started is not the width of every configuration.
C30_PoolWidthFromConfig ==
    PoolStarted =>
        \E cfg \in Configurations : cfg # config /\ PoolWidth(cfg) # Workers

\* C30, as the code has it: every pool scan starts maxWorkers = 20 workers,
\* whatever its configuration.
C30_PoolWidthFixed ==
    PoolStarted =>
        /\ Workers = PoolWidth(config)
        /\ \A cfg \in Configurations : PoolWidth(cfg) = maxWorkers

\* C30 witness: a pool scan configured with a negative rate and one retry
\* has started 20 workers.
C30_Witness ==
    /\ PoolStarted
    /\ config = [Rate |-> -1, TimeoutRetries |-> 1]
    /\ Workers = maxWorkers

\* the length of every truncated body: the two halves and the separator
TruncatedLen == 2 * HalfLimit + Len(Separator)

\* C37: the body the fetcher returns is never longer than the (decompressed)
\* body it was derived from.
C37_NeverLonger ==
    BodyRead => Len(fetched[1]) <= Len(wire[1].content)

\* C37, as the code has it: a body of at most 16384 bytes, or one that cannot
\* be decompressed, is returned with its own length; every other body is
\* returned with 16405 bytes, the two halves of 8192 and the separator of 21,
\* which is more than the body had when it had fewer than 16405.
C37_LengthReturned ==
    BodyRead =>
        /\ Len(fetched[1]) =
              IF Len(wire[1].content) <= BodyLimit \/ Undecompressable
              THEN Len(wire[1].content)
              ELSE TruncatedLen
        /\ Len(fetched[1]) > Len(wire[1].content) <=>
              /\ ~Undecompressable
              /\ Len(wire[1].content) > BodyLimit
              /\ Len(wire[1].content) < TruncatedLen

\* C37 witness: a body of 16385 bytes has been returned with 16405.
C37_Witness ==
    /\ BodyRead
    /\ wire[1].kind = "plain"
    /\ Len(wire[1].content) = BodyLimit + 1
    /\ Len(fetched[1]) = TruncatedLen
    /\ Len(fetched[1]) > Len(wire[1].content)

\* the servers answer every request with a chain of more redirects than
\* the limit
AlwaysOverLimit ==
    \A n \in network : n.ok /\ n.hops > MaxRedirects

\* the attempt e ended with the error of CheckRedirect
RedirectLimited(e) == ~e.ok /\ Contains(e.err, <<"too many redirects">>)

\* C34: an attempt whose chain of redirects is refused ends there, with the
\* redirect-limit error and fewer redirects followed than the servers had, no
\* more than the limit; it is one doRequest call, one turn of the retry loop
\* like any failed attempt. So a fetch never makes more than timeoutRetries +
\* 1 attempts, and a fetch of a URL that always exceeds the limit returns,
\* after exactly that many, an error that wraps the redirect-limit error.
C34_RedirectLimitIsOneAttempt ==
    \A q \in LiveProbes, protocol \in Protocols :
        LET reqs == RequestsOf(q, protocol)
            resp == GetReturned(q, protocol)
        IN  /\ Len(reqs) <= config.TimeoutRetries + 1
            /\ \A k \in DOMAIN reqs :
                /\ reqs[k].hops > MaxRedirects => RedirectLimited(reqs[k])
                /\ RedirectLimited(reqs[k]) =>
                      /\ reqs[k].followed < reqs[k].hops
                      /\ reqs[k].followed <= MaxRedirects
                      /\ k < Len(reqs) \/ resp = <<>> \/ FetchFailed(resp)
            /\ (AlwaysOverLimit /\ resp # <<>>) =>
                  /\ Len(reqs) = config.TimeoutRetries + 1
                  /\ \A k \in DOMAIN reqs : RedirectLimited(reqs[k])
                  /\ FetchFailed(resp)
                  /\ Contains(resp[1].Error, <<"too many redirects">>)
                  /\ Contains(resp[1].Error,
                              <<"request failed after",
                                ToString(config.TimeoutRetries + 1),
                                "attempts:">>)

\* C34 witness: with two retries, a fetch of a URL whose chain is always one
\* over the limit has made three attempts and returned the error.
C34_Witness ==
    \E q \in LiveProbes :
        /\ config.TimeoutRetries = 2
        /\ AlwaysOverLimit
        /\ \A n \in network : n.hops = MaxRedirects + 1
        /\ Len(RequestsOf(q, "https")) = 3
        /\ FetchFailed(q.https)

\* ------------------------------------------------------------ catalogs in a scan

\* how the servers of the catalog runs may answer: a response that matches
\* both valid fingerprints, one that matches none, a transport failure
CatalogNetwork == {n \in FullNetwork : n.StatusCode # 404}

\* catalog runs: a rate-limited scan of two subdomains, of the same name or
\* not, under every catalog, no retry
CatalogInit ==
    \E rate \in {r \in RateValues : r > 0}, fp \in Catalogs, second \in Names :
        /\ New(CatalogNetwork, [Rate |-> rate, TimeoutRetries |-> 0], fp,
               ToSlice(<<"a.test", second>>))
        /\ wire = <<>>
        /\ listFile = <<>>
        /\ Direct

\* the catalog runs
CatalogSpec == CatalogInit /\ [][FetchNext]_vars

\* C33: when some regex fingerprint of the catalog does not compile, wherever
\* it stands, every result of the scan has status error: a subdomain with a
\* successful fetch because the matcher fails on its selected response,
\* whatever the body and whatever matches it, the others because both fetches
\* failed. No result is vulnerable or not vulnerable, none has evidence, and
\* the results array of the returned scan holds only errors.
C33_BadRegexPoisonsScan ==
    BadPositions # {} =>
        /\ \A r \in ProducedResults \cup PlacedResults :
            /\ r.Status = "error"
            /\ ~r.Vulnerable
            /\ r.Evidence = <<>>
            /\ (Usable(r.HTTPSResponse) \/ Usable(r.HTTPResponse)) =>
                  /\ MatcherFailedOn(r)
                  /\ Contains(r.Error, <<"fingerprint matching error:">>)
                  /\ Contains(r.Error, <<"invalid regex pattern">>)
        /\ pc = "done" =>
              \A k \in DOMAIN results : results[k].Status = "error"

\* C33 witness: a scan of two different subdomains has returned under a
\* catalog whose second fingerprint does not compile and whose first matches
\* the HTTPS body of the first subdomain; the second subdomain was reached
\* over HTTP only; both have status error.
C33_Witness ==
    /\ pc = "done"
    /\ N = 2
    /\ subdomains[0] # subdomains[1]
    /\ BadPositions = {2}
    /\ Usable(results[0].HTTPSResponse)
    /\ FingerprintMatch(fingerprints[1], results[0].HTTPSResponse[1].Body).matched
    /\ ~Usable(results[1].HTTPSResponse) /\ Usable(results[1].HTTPResponse)
    /\ results[0].Status = "error" /\ results[1].Status = "error"

\* ------------------------------------------------------------ the two variants

\* what scanSubdomain returns for a subdomain given the two responses its
\* fetches ended with: the variant of the scan is no input of it
ResultFor(index, httpsResult, httpResult) ==
    Classify(fingerprints, subdomains[index], httpsResult, httpResult)

\* C32: when a scan has returned, in either mode and in either variant, the
\* results array has one slot per input subdomain and slot k holds what the
\* one probe of subdomains[k] returned, which is a function of the subdomain,
\* the catalog and the two responses the probe got; so Scan and
\* ScanWithRealtimeOutput return the same array for the same inputs and
\* probe outcomes, and Scan emits nothing.
C32_SameResultsBothVariants ==
    /\ pc = "done" =>
        /\ DOMAIN results = DOMAIN subdomains
        /\ \A k \in DOMAIN subdomains :
            /\ produced[k] = <<results[k]>>
            /\ results[k] = ResultFor(k, results[k].HTTPSResponse,
                                      results[k].HTTPResponse)
    /\ ~realtime => printed = <<>>

\* C32 witness: a returned real-time pool scan of two subdomains whose
\* results differ, the first vulnerable, emitted in the reverse of the input
\* order.
C32_Witness ==
    /\ pc = "done" /\ realtime /\ PoolMode /\ N = 2
    /\ results[0].Vulnerable /\ ~results[1].Vulnerable
    /\ printed = <<results[1], results[0]>>

\* ------------------------------------------------------------ snippets

\* n times the byte c
Pad(c, n) == [k \in 1..n |-> c]

\* how many bytes stand before and after the matched text
Pads ==
    {0, 1, SnippetContext \div 2 + 2, SnippetContext - 1, SnippetContext,
     SnippetContext + 1}

\* the fingerprints of the pool whose pattern compiles
ValidFingerprints ==
    {f \in FingerprintPool : f.Regex => RegexCompiles(f.Pattern)}

\* the texts a body of the snippet runs holds between its paddings
MatchTexts == {<<"a", "B">>, <<"A", "b">>, <<"a", ".">>}

\* the bodies: padding of ASCII or of invalid bytes, a text, ASCII padding,
\* and the text once more or not
SnippetBodies ==
    {Pad(fill, pre) \o text \o Pad("x", post) \o again :
        fill \in {"x", InvalidByte}, pre \in Pads, post \in Pads,
        text \in MatchTexts, again \in {<<>>, <<"a", "B">>}}

\* snippet runs: checkVulnerabilities is about to call extractSnippet for a
\* fingerprint that matched the body; no scan is run
SnippetInit ==
    \E f \in ValidFingerprints,
       body \in {b \in SnippetBodies : \E g \in ValidFingerprints :
                                          FingerprintMatch(g, b).matched} :
        /\ FingerprintMatch(f, body).matched
        /\ New(SmallNetwork, [Rate |-> 0, TimeoutRetries |-> 0],
               DefaultCatalog, <<>>)
        /\ wire = <<>>
        /\ listFile = <<>>
        /\ args = <<>>
        /\ outputFile = ""
        /\ fingerprintsFile = <<>>
        /\ disk = <<>>
        /\ exitErr = <<>>
        /\ snippetRun = <<[body |-> body, pattern |-> f.Pattern,
                           regex |-> f.Regex, returned |-> FALSE,
                           snippet |-> <<>>]>>

\* s.extractSnippet(httpResp.Body, match.Pattern) returns or panics
ExtractSnippet ==
    /\ panicked = ""
    /\ snippetRun # <<>>
    /\ ~snippetRun[1].returned
    /\ LET run == snippetRun[1]
       IN  IF SnippetPanics(run.body, run.pattern)
           THEN /\ panicked' = "slice bounds out of range"
                /\ snippetRun' = snippetRun
           ELSE /\ panicked' = panicked
                /\ snippetRun' =
                       <<[run EXCEPT !.returned = TRUE,
                                     !.snippet = extractSnippet(run.body,
                                                                run.pattern)]>>
    /\ UNCHANGED <<network, config, fingerprints, subdomains, wire, fetched,
                   clock, listFile, args, outputFile, fingerprintsFile, disk,
                   exitErr, rateLimiter, realtime, pc, i, results, cur, pool,
                   printed, probed, produced, written>>

SnippetSpec == SnippetInit /\ [][ExtractSnippet]_vars

\* the pattern's text occurs in body at 0-based offset at, case ignored
FoldedOccursAt(body, pattern, at) ==
    /\ at + Len(pattern) <= Len(body)
    /\ \A k \in 1..Len(pattern) : LowerChar(body[at + k]) = LowerChar(pattern[k])

\* the offset in body of the first such occurrence, or -1
FoldedIndex(body, pattern) ==
    IF \A at \in 0..Len(body) : ~FoldedOccursAt(body, pattern, at)
    THEN -1
    ELSE CHOOSE at \in 0..Len(body) :
            /\ FoldedOccursAt(body, pattern, at)
            /\ \A o \in 0..(at - 1) : ~FoldedOccursAt(body, pattern, o)

\* the snippet around offset at: SnippetContext bytes on either side of the
\* pattern's length, clipped to the body
SnippetAround(body, pattern, at) ==
    LET lo == IF at - SnippetContext < 0 THEN 0 ELSE at - SnippetContext
        hi == IF at + Len(pattern) + SnippetContext > Len(body)
              THEN Len(body)
              ELSE at + Len(pattern) + SnippetContext
    IN  IF at = -1 THEN <<>> ELSE Slice(body, lo, hi)

\* C35: extractSnippet never fails, and the snippet it returns is the body
\* from 100 bytes before the first case-insensitive occurrence of the
\* pattern's text to 100 bytes after its end, clipped to the body; it is
\* empty when the text does not occur.
C35_SnippetAroundOccurrence ==
    snippetRun # <<>> =>
        /\ panicked = ""
        /\ ~SnippetPanics(snippetRun[1].body, snippetRun[1].pattern)
        /\ snippetRun[1].returned =>
               snippetRun[1].snippet =
                   SnippetAround(snippetRun[1].body, snippetRun[1].pattern,
                                 FoldedIndex(snippetRun[1].body,
                                             snippetRun[1].pattern))

\* C35, for the bodies that lower-casing leaves at their length (no invalid
\* byte): the same; for the others the bounds come from the offset in the
\* lower-cased body, and the call panics exactly when they are out of order.
C35_SnippetFromLoweredIndex ==
    snippetRun # <<>> =>
        LET run == snippetRun[1]
            b == SnippetBounds(run.body, run.pattern)
            ascii == \A k \in 1..Len(run.body) : run.body[k] # InvalidByte
        IN  /\ ascii =>
                /\ panicked = ""
                /\ b.index = FoldedIndex(run.body, run.pattern)
                /\ 0 <= b.start /\ b.start <= b.end /\ b.end <= Len(run.body)
                /\ run.returned =>
                       run.snippet = SnippetAround(run.body, run.pattern,
                                         FoldedIndex(run.body, run.pattern))
            /\ run.returned =>
                /\ run.snippet = IF b.index = -1 THEN <<>>
                                 ELSE Slice(run.body, b.start, b.end)
                /\ b.index = -1 <=> FoldedIndex(run.body, run.pattern) = -1
            /\ (run.returned \/ panicked # "") =>
                   (panicked # "" <=> (b.index # -1 /\ b.start > b.end))

\* C35 witness: the call has panicked on a body of 52 invalid bytes followed
\* by the text that the substring fingerprint matched: the text is at offset
\* 156 of the lower-cased body, start is 56 and end is the body's length, 55
\* or less.
C35_Witness ==
    /\ snippetRun # <<>>
    /\ panicked = "slice bounds out of range"
    /\ ~snippetRun[1].regex
    /\ FoldedIndex(snippetRun[1].body, snippetRun[1].pattern)
           = SnippetContext \div 2 + 2
    /\ SnippetBounds(snippetRun[1].body, snippetRun[1].pattern).start
           > Len(snippetRun[1].body)

\* a snippet run has returned the empty snippet for the regex fingerprint,
\* whose pattern matched the body while its text does not occur in it
EmptyRegexSnippet ==
    /\ snippetRun # <<>>
    /\ snippetRun[1].returned /\ snippetRun[1].regex
    /\ snippetRun[1].snippet = <<>>
    /\ RegexMatchString(snippetRun[1].pattern, snippetRun[1].body)

\* ------------------------------------------------------------ the scan command

\* a custom fingerprints file that can be parsed holds this catalog
CustomCatalog ==
    <<[Service |-> "S4", Pattern |-> <<"b", "a">>, Notes |-> "n4",
       Regex |-> FALSE]>>

\* the list files of the command runs: two names, or a comment only
CommandFiles == {<<"a.test", "\n", "a.test">>, <<"#">>}

\* fingerprints.Load: the default catalog, with the custom file's appended
Load(customFile) ==
    IF customFile = <<>> THEN DefaultCatalog
    ELSE DefaultCatalog \o customFile[1]

\* command runs from the start of runScan: with or without a subdomain
\* argument, a list file, an output file and a custom fingerprints file;
\* every rate, no retry; nothing is loaded and no scanner exists
CommandInit ==
    \E rate \in RateValues,
       file \in {<<>>} \cup {<<data>> : data \in CommandFiles},
       arg \in {<<>>, <<<<"a.test">>>>},
       out \in {"", "out.json"},
       custom \in {<<>>, <<CustomCatalog>>} :
        /\ network = CatalogNetwork
        /\ config = [Rate |-> rate, TimeoutRetries |-> 0]
        /\ fingerprints = <<>>
        /\ subdomains = <<>>
        /\ rateLimiter = <<>>
        /\ realtime = FALSE
        /\ pc = "run"
        /\ i = 0
        /\ results = <<>>
        /\ cur = NoProbe
        /\ subdomainChan = <<>>
        /\ subdomainClosed = FALSE
        /\ resultChan = <<>>
        /\ resultCloses = 0
        /\ wg = 0
        /\ workers = EmptyBag
        /\ watcher = "none"
        /\ printed = <<>>
        /\ probed = <<>>
        /\ produced = <<>>
        /\ written = <<>>
        /\ panicked = ""
        /\ wire = <<>>
        /\ fetched = <<>>
        /\ clock = ClockAtNew([Rate |-> 0, TimeoutRetries |-> 0])
        /\ listFile = file
        /\ args = arg
        /\ outputFile = out
        /\ fingerprintsFile = custom
        /\ disk = <<>>
        /\ exitErr = <<>>
        /\ snippetRun = <<>>

\* runScan returns err before anything else has happened
ReturnEarly(err) ==
    /\ pc' = "exit"
    /\ exitErr' = err
    /\ UNCHANGED <<fingerprints, subdomains, rateLimiter, probed, produced,
                   written, panicked, clock>>

\* scanner.New(cfg, fp), for the subdomains loaded
Construct(fp, subs) ==
    /\ fingerprints' = fp
    /\ subdomains' = subs
    /\ rateLimiter' = IF config.Rate > 0 /\ Interval(config.Rate) > 0
                      THEN <<[running |-> TRUE, C |-> 0]>>
                      ELSE <<>>
    /\ probed' = [k \in DOMAIN subs |-> 0]
    /\ produced' = [k \in DOMAIN subs |-> <<>>]
    /\ written' = [k \in DOMAIN subs |-> 0]
    /\ panicked' = IF config.Rate > 0 /\ Interval(config.Rate) <= 0
                   THEN "non-positive interval for NewTicker"
                   ELSE ""
    /\ clock' = ClockAtNew(config)
    /\ pc' = "new"
    /\ exitErr' = exitErr

\* RunScanLoad with the scanner constructed before the list is loaded
RunScanLoadLate ==
    /\ panicked = ""
    /\ pc = "run"
    /\ \E fpRead \in BOOLEAN, listRead \in BOOLEAN :
        IF listFile = <<>> /\ args = <<>>
        THEN ReturnEarly(<<"must provide either a subdomain argument or use -l/--list">>)
        ELSE IF fingerprintsFile # <<>> /\ ~fpRead
        THEN ReturnEarly(<<"failed to load fingerprints:",
                           "failed to load custom fingerprints:",
                           "no such file or directory">>)
        ELSE IF listFile # <<>> /\ ~listRead
        THEN /\ fingerprints' = Load(fingerprintsFile)
             /\ rateLimiter' = IF config.Rate > 0 /\ Interval(config.Rate) > 0
                               THEN <<[running |-> TRUE, C |-> 0]>>
                               ELSE <<>>
             /\ clock' = ClockAtNew(config)
             /\ pc' = "exit"
             /\ exitErr' = <<"failed to load subdomains from file:",
                             "no such file or directory">>
             /\ UNCHANGED <<subdomains, probed, produced, written, panicked>>
        ELSE IF listFile # <<>>
        THEN Construct(Load(fingerprintsFile),
                       ToSlice(loadSubdomainsFromFile(listFile[1])))
        ELSE Construct(Load(fingerprintsFile), ToSlice(<<args[1]>>))
    /\ UNCHANGED <<network, config, wire, fetched, listFile, args, outputFile,
                   fingerprintsFile, disk, snippetRun, realtime, i, results,
                   cur, pool, printed>>

\* runScan up to the call of ScanWithRealtimeOutput: the input is validated,
\* the catalog loaded, the list loaded, the scanner constructed; the files
\* can be read or not
RunScanLoad ==
    /\ panicked = ""
    /\ pc = "run"
    /\ \E fpRead \in BOOLEAN, listRead \in BOOLEAN :
        IF listFile = <<>> /\ args = <<>>
        THEN ReturnEarly(<<"must provide either a subdomain argument or use -l/--list">>)
        ELSE IF fingerprintsFile # <<>> /\ ~fpRead
        THEN ReturnEarly(<<"failed to load fingerprints:",
                           "failed to load custom fingerprints:",
                           "no such file or directory">>)
        ELSE IF listFile # <<>> /\ ~listRead
        THEN ReturnEarly(<<"failed to load subdomains from file:",
                           "no such file or directory">>)
        ELSE IF listFile # <<>>
        THEN Construct(Load(fingerprintsFile),
                       ToSlice(loadSubdomainsFromFile(listFile[1])))
        ELSE Construct(Load(fingerprintsFile), ToSlice(<<args[1]>>))
    /\ UNCHANGED <<network, config, wire, fetched, listFile, args, outputFile,
                   fingerprintsFile, disk, snippetRun, realtime, i, results,
                   cur, pool, printed>>

\* the scan command from its start to its return
CommandNext ==
    \/ RunScanLoad
    \/ ScanWithRealtimeOutput
    \/ Tick
    \/ RateLimitWait
    \/ RateLimitProbe
    \/ RateLimitStore
    \/ RateLimitReturn
    \/ StartWorker
    \/ SendWork
    \/ CloseWork
    \/ StartWatcher
    \/ WatcherClose
    \/ WorkerReceive
    \/ WorkerProbe
    \/ WorkerSend
    \/ WorkerExit
    \/ Collect
    \/ CollectReturn
    \/ RunScanReturn

\* the runs of the scan command from its start
CommandSpec == CommandInit /\ [][CommandNext]_vars

\* runScan has returned the error of a load that failed
LoadFailed ==
    /\ pc = "exit"
    /\ \/ Contains(exitErr, <<"failed to load fingerprints:">>)
       \/ Contains(exitErr, <<"failed to load subdomains from file:">>)

\* no scanner has been constructed and nothing of a scan has happened
NothingStarted ==
    /\ rateLimiter = <<>>
    /\ clock.next = 0
    /\ fingerprints = <<>> /\ subdomains = <<>>
    /\ workers = EmptyBag /\ wg = 0 /\ watcher = "none"
    /\ subdomainChan = <<>> /\ resultChan = <<>>
    /\ probed = <<>> /\ produced = <<>> /\ cur = NoProbe
    /\ results = <<>> /\ printed = <<>>
    /\ disk = <<>>

\* C36: when the load of the fingerprint catalog or of the subdomain list
\* has failed, runScan has returned that error with no scanner constructed:
\* no ticker, no worker, no probe, no fetch, in that run; and a run that got
\* as far as the scanner has loaded both.
C36_LoadFailureBeforeScanner ==
    /\ LoadFailed => NothingStarted
    /\ pc = "run" => NothingStarted
    /\ pc \notin {"run", "exit"} =>
        /\ exitErr = <<>>
        /\ fingerprints = Load(fingerprintsFile)
        /\ subdomains = IF listFile # <<>>
                        THEN ToSlice(loadSubdomainsFromFile(listFile[1]))
                        ELSE ToSlice(<<args[1]>>)

\* C36 witness: the custom catalog was loaded, the list file could not be
\* read, and runScan has returned that error, in a run whose rate would
\* have made scanner.New create a ticker.
C36_Witness ==
    /\ LoadFailed
    /\ Contains(exitErr, <<"failed to load subdomains from file:">>)
    /\ fingerprintsFile # <<>> /\ listFile # <<>>
    /\ config.Rate > 0

\* a command run has failed on the fingerprints file
CatalogLoadFailed ==
    LoadFailed /\ Contains(exitErr, <<"failed to load fingerprints:">>)

\* a command run with the same flags but readable files has started workers
CommandScanned ==
    /\ pc = "exit" /\ exitErr = <<>>
    /\ fingerprintsFile # <<>> /\ listFile # <<>>
    /\ N = 2 /\ \A k \in DOMAIN probed : probed[k] = 1

\* the indices of the results that are vulnerable with status vulnerable
VulnerableSlots ==
    {k \in DOMAIN results :
        results[k].Vulnerable /\ results[k].Status = "vulnerable"}

\* C38: the file written for -o holds a JSON array, never null, of exactly
\* the results with vulnerable = true and status = vulnerable, in input
\* order (the j-th element is the j-th such result); it is the empty array
\* when there is none; without -o, or when the file cannot be created,
\* nothing is written.
C38_OutputHoldsVulnerableInOrder ==
    /\ disk # <<>> =>
        /\ pc = "exit" /\ outputFile # "" /\ exitErr = <<>>
        /\ ~disk[1].null
        /\ Len(disk[1].array) = Cardinality(VulnerableSlots)
        /\ \A k \in VulnerableSlots :
               disk[1].array[Cardinality({m \in VulnerableSlots : m <= k})]
                   = EncodeResult(results[k])
    /\ (pc = "exit" /\ outputFile # "" /\ exitErr = <<>>) => disk # <<>>

\* C38 witness: a written file of one result, the second of two, the first
\* being an error result.
C38_Witness ==
    /\ disk # <<>> /\ N = 2
    /\ results[0].Status = "error"
    /\ results[1].Status = "vulnerable"
    /\ Len(disk[1].array) = 1
    /\ disk[1].array[1].subdomain = subdomains[1]

\* a file has been written that holds the empty array
EmptyOutput ==
    /\ disk # <<>> /\ N = 2
    /\ disk[1].array = <<>> /\ ~disk[1].null
    /\ results[0].Status = "not vulnerable"

\* a file has been written that holds two results in input order
FullOutput ==
    /\ disk # <<>> /\ N = 2
    /\ Len(disk[1].array) = 2
    /\ disk[1].array[1] = EncodeResult(results[0])
    /\ disk[1].array[2] = EncodeResult(results[1])
    /\ results[0] # results[1]

\* ------------------------------------------------------------ one scanner, many calls

\* lifecycle runs: a scanner with a rate, a list of one to MaxSubs names, a
\* network on which every request is answered or every request fails, so
\* that every probe terminates
LifeInit ==
    \E rate \in {r \in RateValues : r > 0}, n \in 1..MaxSubs,
       answer \in SmallNetwork :
        /\ New({answer}, [Rate |-> rate, TimeoutRetries |-> 0],
               DefaultCatalog, [k \in 0..(n - 1) |-> "a.test"])
        /\ wire = <<>>
        /\ listFile = <<>>
        /\ Direct

\* (*Scanner).Cleanup, called when no Scan is running: the ticker is stopped,
\* the field keeps pointing at it; whether a tick already in the channel
\* stays there is up to the Go version the program is built with
Cleanup ==
    /\ panicked = ""
    /\ pc \in {"new", "done"}
    /\ IF rateLimiter = <<>>
       THEN rateLimiter' = rateLimiter
       ELSE \E c \in {rateLimiter[1].C, 0} :
               rateLimiter' = <<[running |-> FALSE, C |-> c]>>
    /\ UNCHANGED <<inputs, realtime, pc, i, results, cur, pool, printed,
                   probed, produced, written, panicked>>

\* Scan or ScanWithRealtimeOutput called on a scanner whose last scan has
\* returned, up to the call of the mode's loop
Rescan(rt) ==
    /\ panicked = ""
    /\ pc = "done"
    /\ \A k \in DOMAIN probed : probed[k] < MaxScans
    /\ realtime' = rt
    /\ results' = [k \in DOMAIN subdomains |-> ZeroResult]
    /\ i' = 0
    /\ pc' = IF config.Rate > 0 THEN "ratelimit" ELSE "spawn"
    /\ UNCHANGED <<inputs, rateLimiter, cur, pool, printed, probed, produced,
                   written, panicked>>

ScanAgain == Rescan(FALSE)

ScanWithRealtimeOutputAgain == Rescan(TRUE)

\* the steps of the rate-limited loop
RateLimitLoop ==
    \/ RateLimitWait
    \/ RateLimitProbe
    \/ RateLimitStore
    \/ RateLimitReturn

\* the calls a program can make on a scanner with a rate, and what follows
LifeNext ==
    \/ Scan
    \/ ScanWithRealtimeOutput
    \/ ScanAgain
    \/ ScanWithRealtimeOutputAgain
    \/ Cleanup
    \/ Tick
    \/ RateLimitWait
    \/ RateLimitProbe
    \/ RateLimitStore
    \/ RateLimitReturn

\* the runtime fires a running ticker and schedules the goroutine in the loop;
\* the caller is free to make no further call
LifeSpec ==
    LifeInit /\ [][LifeNext]_vars /\ WF_vars(Tick) /\ WF_vars(RateLimitLoop)

\* the loop waits for a tick of a stopped ticker whose channel is empty
Blocked ==
    /\ pc = "ratelimit" /\ i < N
    /\ rateLimiter # <<>>
    /\ ~rateLimiter[1].running /\ rateLimiter[1].C = 0

\* C31: a rate-limited Scan of a non-empty list that has been invoked
\* eventually returns, whatever calls were made on the scanner before it.
C31_RateLimitedScanReturns == (pc \in RateLimitPlaces) ~> (pc = "done")

\* C31, for a scanner whose ticker runs, be it its first Scan or a later
\* one: the Scan returns; one invoked after Cleanup waits for ever for a
\* tick once the channel is empty.
C31_ReturnsWhileTickerRuns ==
    /\ (pc \in RateLimitPlaces /\ rateLimiter[1].running) ~> (pc = "done")
    /\ [](Blocked => []Blocked)

\* C31 witness: a Scan invoked after Cleanup waits for its first tick.
C31_Witness == Blocked /\ i = 0 /\ \A k \in DOMAIN probed : probed[k] = 0

\* a second Scan on a scanner that was not cleaned up has returned
SecondScanReturned ==
    /\ pc = "done" /\ rateLimiter[1].running
    /\ \A k \in DOMAIN probed : probed[k] = MaxScans /\ written[k] = MaxScans

====
